---- MODULE Spec2Model ----
(***************************************************************************)
(* Schema-driven query compiler of the multi-tenant content catalog.       *)
(*                                                                         *)
(* The document store is a fixed two-tenant fixture whose category names   *)
(* and values overlap; a request is drawn from bounded sets, compiled and  *)
(* executed by one of the repository's query paths, and its result, the    *)
(* compiled match predicate and the reads it issued are recorded.          *)
(***************************************************************************)
EXTENDS Integers, Sequences, FiniteSets, TLC

VARIABLES pc, req, res, reads, now, schema_cache, context_cache, insights_cache,
          th, cache_data, cache_time, mongo_client, created, sessions

\* the clock and the caches of the parser and the router
cacheVars == <<now, schema_cache, context_cache, insights_cache>>

\* the threads of concurrent callers and the two dictionaries of
\* cached_with_ttl
threadVars == <<th, cache_data, cache_time>>

\* the global client of database/connection.py, the clients created since
\* the last close (a history variable), and the sessions of the chatbot
\* service
svcVars == <<mongo_client, created, sessions>>

vars == <<pc, req, res, reads, now, schema_cache, context_cache, insights_cache, th, cache_data, cache_time, mongo_client, created, sessions>>

(***************************************************************************)
(* Bounds of the model.                                                    *)
(***************************************************************************)
\* a request carries at most this many constraints (filtered categories,
\* date filter, marketing flag, non-default page, non-default page size)
MaxConstraints == 2
\* at most this many values are given for one category
MaxValues == 2
\* pages requested are 1..MaxPage
MaxPage == 2
\* a search carries at most this many terms
MaxTerms == 2
\* documents handed to the analytics engine in one call
MaxDocs == 3
\* steps of the clock beyond one insights lifetime
MaxTicks == 1
\* characters of a user message
MaxLen == 4

\* how far a session's query count is followed past the rate limit
MaxOver == 2

\* how far a session's history length and query count may drift apart
MaxDrift == 2

(***************************************************************************)
(* The store: five reference collections and the primary collection.       *)
(* Tenant "A" is the tenant whose identifiers are hard-coded in the        *)
(* repository (TENANT_ID and the static schema's filter_value ids).        *)
(***************************************************************************)
Tenants == {"A", "B"}

TENANT_ID == "A"

categories ==
    { [id |-> 1, name |-> "Primary Audience",   tenant |-> "A"],
      [id |-> 2, name |-> "Secondary Audience", tenant |-> "A"],
      [id |-> 4, name |-> "Primary Audience",   tenant |-> "B"],
      [id |-> 5, name |-> "Secondary Audience", tenant |-> "B"] }

category_attributes ==
    { [id |-> 11, name |-> "Businesses", category |-> 1, tenant |-> "A"],
      [id |-> 12, name |-> "Investors",  category |-> 1, tenant |-> "A"],
      [id |-> 13, name |-> "Businesses", category |-> 2, tenant |-> "A"],
      [id |-> 16, name |-> "Businesses", category |-> 4, tenant |-> "B"],
      [id |-> 17, name |-> "Investors",  category |-> 5, tenant |-> "B"] }

topics ==
    { [id |-> 21, name |-> "Crypto", tenant |-> "A"],
      [id |-> 22, name |-> "Crypto", tenant |-> "B"] }

content_types ==
    { [id |-> 31, name |-> "Blog",  tenant |-> "A"],
      [id |-> 32, name |-> "Video", tenant |-> "A"],
      [id |-> 33, name |-> "Blog",  tenant |-> "B"] }

custom_tags ==
    { [id |-> 41, name |-> "Gated", tenant |-> "A"],
      [id |-> 42, name |-> "Gated", tenant |-> "B"],
      [id |-> 43, name |-> "News",  tenant |-> "A"] }

\* A scalar field is the set of its values: empty when the field is missing.
\* topic and contentType are scalar references, tag and categoryAttribute
\* are arrays of references, geoFocus is a directly stored string.
sitemaps ==
    { [id |-> 101, tenant |-> "A", geoFocus |-> {"English"}, topic |-> {21},
       contentType |-> {31}, tag |-> {41}, categoryAttribute |-> {11},
       isMarketingContent |-> TRUE, createdAt |-> 1, name |-> <<"C", "r">>,
       description |-> <<>>, summary |-> <<>>],
      [id |-> 102, tenant |-> "A", geoFocus |-> {"German"}, topic |-> {},
       contentType |-> {32}, tag |-> {}, categoryAttribute |-> {12, 13},
       isMarketingContent |-> FALSE, createdAt |-> 2, name |-> <<"a">>,
       description |-> <<"n", "f", "t">>, summary |-> <<>>],
      [id |-> 103, tenant |-> "A", geoFocus |-> {"English"}, topic |-> {21},
       contentType |-> {31}, tag |-> {41, 43}, categoryAttribute |-> {11, 13},
       isMarketingContent |-> FALSE, createdAt |-> 3, name |-> <<"a">>,
       description |-> <<>>, summary |-> <<"c", "R">>],
      [id |-> 104, tenant |-> "A", geoFocus |-> {}, topic |-> {},
       contentType |-> {32}, tag |-> {}, categoryAttribute |-> {},
       isMarketingContent |-> TRUE, createdAt |-> 2, name |-> <<"e", "t">>,
       description |-> <<>>, summary |-> <<>>],
      [id |-> 105, tenant |-> "B", geoFocus |-> {"English"}, topic |-> {22},
       contentType |-> {33}, tag |-> {42}, categoryAttribute |-> {16, 17},
       isMarketingContent |-> TRUE, createdAt |-> 2, name |-> <<"c", "r">>,
       description |-> <<>>, summary |-> <<>>],
      [id |-> 106, tenant |-> "B", geoFocus |-> {"German"}, topic |-> {22},
       contentType |-> {33}, tag |-> {}, categoryAttribute |-> {17},
       isMarketingContent |-> FALSE, createdAt |-> 3, name |-> <<"n", "f", "t">>,
       description |-> <<>>, summary |-> <<>>] }

Collection(name) ==
    CASE name = "categories"          -> categories
      [] name = "category_attributes" -> category_attributes
      [] name = "topics"              -> topics
      [] name = "content_types"       -> content_types
      [] name = "custom_tags"         -> custom_tags

SitemapIds == {d.id : d \in sitemaps}

Doc(i) == CHOOSE d \in sitemaps : d.id = i

\* documents in natural (insertion) order
RECURSIVE SortedIds(_)
SortedIds(S) ==
    IF S = {} THEN <<>>
    ELSE LET m == CHOOSE x \in S : \A y \in S : x <= y
         IN  <<m>> \o SortedIds(S \ {m})

(***************************************************************************)
(* Requests.                                                               *)
(***************************************************************************)
\* the category names a caller may put in a filter: "Topics" and
\* "Custom Tags" are the names the executor knows, "Topic" the name the
\* static schema knows, "Region" a name no schema knows
CategoryNames ==
    {"Language", "Topics", "Topic", "Content Type", "Custom Tags",
     "Primary Audience", "Secondary Audience", "Region"}

\* values a caller may give for a category ("Stocks" names no stored topic)
CandValues(cat) ==
    CASE cat = "Language"     -> {"English", "German"}
      [] cat = "Topics"       -> {"Crypto", "Stocks"}
      [] cat = "Topic"        -> {"Crypto", "Stocks"}
      [] cat = "Content Type" -> {"Blog", "Video"}
      [] cat = "Custom Tags"  -> {"Gated", "News"}
      [] cat = "Region"       -> {"Businesses"}
      [] OTHER                -> {"Businesses", "Investors"}

ValueLists(cat) == {S \in SUBSET CandValues(cat) : Cardinality(S) <= MaxValues}

\* one entry of a filter dict: the value of a category is a list of
\* strings (include), an {include, exclude} mapping, or a single scalar
ListEntries ==
    UNION {{[cat |-> c, kind |-> "list", include |-> S, exclude |-> {}] :
             S \in ValueLists(c)} : c \in CategoryNames}

DictEntries ==
    UNION {{[cat |-> c, kind |-> "dict", include |-> S, exclude |-> X] :
             S \in ValueLists(c), X \in ValueLists(c)} : c \in CategoryNames}

ScalarEntries ==
    UNION {{[cat |-> c, kind |-> "scalar", include |-> {v}, exclude |-> {}] :
             v \in CandValues(c)} : c \in CategoryNames}

\* a dict keeps insertion order and has distinct keys
DistinctCats(f) == \A i, j \in 1..Len(f) : i # j => f[i].cat # f[j].cat

FiltersOver(entries, n) ==
    {f \in UNION {[1..k -> entries] : k \in 0..n} : DistinctCats(f)}

NoDate == [start |-> 0, end |-> 0]

DateFilters == {NoDate, [start |-> 2, end |-> 0], [start |-> 0, end |-> 2]}

MarketingFilters == {"none", "true", "false"}

DefaultPageSize == 50

\* page sizes a caller may pass: none, small, the default, oversized
PageSizes == {0, 3, DefaultPageSize, 500}

\* pages a caller may pass (page is 1-based; 0 is below the first page)
Pages == 0..MaxPage

B2N(b) == IF b THEN 1 ELSE 0

Constraints(f, df, mf, page, page_size) ==
    Len(f) + B2N(df # NoDate) + B2N(mf # "none") + B2N(page # 1)
           + B2N(page_size # DefaultPageSize)

NoReq ==
    [op |-> "none", tenant_id |-> "A", filters |-> <<>>, is_negation |-> FALSE,
     date_filter |-> NoDate, marketing_filter |-> "none", page |-> 1,
     page_size |-> DefaultPageSize, search_terms |-> {}, operation |-> "none",
     data |-> <<>>, value_field |-> "none", spec_tenant |-> "any",
     failure |-> "none", text |-> <<>>, is_string |-> TRUE,
     outcomes |-> <<>>, total_values |-> 0, query_type |-> "none",
     session_id |-> "s1", tenant_ok |-> TRUE, response |-> "none",
     include_metadata |-> TRUE]

(***************************************************************************)
(* Match predicates of the document store.                                 *)
(***************************************************************************)
\* a condition on one field; bad marks an operand the server rejects
\* ($in / $nin given something that is not an array)
NoCond == [op |-> "none", ids |-> {}, vals |-> {}, bad |-> FALSE]

IdCond(o, S) == [op |-> o, ids |-> S, vals |-> {}, bad |-> FALSE]

ValCond(o, S) == [op |-> o, ids |-> {}, vals |-> S, bad |-> FALSE]

BadCond(o) == [op |-> o, ids |-> {}, vals |-> {}, bad |-> TRUE]

\* does a field (the set of its values) satisfy a condition over operands S
Holds(o, field, S) ==
    CASE o = "none" -> TRUE
      [] o = "in"   -> field \cap S # {}
      [] o = "nin"  -> field \cap S = {}
      [] o = "all"  -> S # {} /\ S \subseteq field
      [] o = "eq"   -> S \subseteq field /\ S # {}

NoMatch ==
    [tenant |-> "any", gte |-> 0, lte |-> 0, isMarketingContent |-> "none",
     geoFocus |-> NoCond, topic |-> NoCond, contentType |-> NoCond,
     tag |-> NoCond, categoryAttribute |-> NoCond, hasOr |-> FALSE, terms |-> {},
     hasDetails |-> FALSE, details |-> {}]

\* search terms: plain words, one with the regex wildcard, one that does
\* not compile as a regular expression
Terms == {<<"c", "r">>, <<"N", "F", "T">>, <<".", "t">>, <<"(">>}

TermCompiles(term) == \A j \in 1..Len(term) : term[j] # "("

Lower(c) ==
    CASE c = "C" -> "c" [] c = "R" -> "r" [] c = "N" -> "n"
      [] c = "F" -> "f" [] c = "T" -> "t" [] OTHER -> c

\* an unanchored, case-insensitive regular-expression search
RegexSearch(term, text) ==
    \E i \in 1..(Len(text) - Len(term) + 1) :
        \A j \in 1..Len(term) :
            term[j] = "." \/ Lower(term[j]) = Lower(text[i + j - 1])

\* the $or of the regex conditions on name, description and summary
TextMatches(d, terms) ==
    \E term \in terms :
        \/ RegexSearch(term, d.name)
        \/ RegexSearch(term, d.description)
        \/ RegexSearch(term, d.summary)

\* the documents a $lookup on categoryAttribute joins to a record
CategoryDetails(d) == {a \in category_attributes : a.id \in d.categoryAttribute}

\* {"$or": [{"$and": [{"categoryDetails.category": id},
\*                    {"categoryDetails.name": {"$in": values}}]}, ...]}:
\* each half of an $and is satisfied by any joined document
DetailsMatch(d, details) ==
    \E c \in details :
        /\ \E a \in CategoryDetails(d) : a.category = c.category
        /\ \E a \in CategoryDetails(d) : a.name \in c.names

QueryIsBad(q) ==
    q.geoFocus.bad \/ q.topic.bad \/ q.contentType.bad \/ q.tag.bad
        \/ q.categoryAttribute.bad

Matches(d, q) ==
    /\ q.tenant # "any" => d.tenant = q.tenant
    /\ q.gte # 0 => d.createdAt >= q.gte
    /\ q.lte # 0 => d.createdAt <= q.lte
    /\ q.isMarketingContent # "none" =>
           d.isMarketingContent = (q.isMarketingContent = "true")
    /\ Holds(q.geoFocus.op, d.geoFocus, q.geoFocus.vals)
    /\ Holds(q.topic.op, d.topic, q.topic.ids)
    /\ Holds(q.contentType.op, d.contentType, q.contentType.ids)
    /\ Holds(q.tag.op, d.tag, q.tag.ids)
    /\ Holds(q.categoryAttribute.op, d.categoryAttribute, q.categoryAttribute.ids)
    /\ q.hasOr => TextMatches(d, q.terms)
    /\ q.hasDetails => DetailsMatch(d, q.details)

MatchedIds(q) == {d.id : d \in {x \in sitemaps : Matches(x, q)}}

\* $skip n (only when n > 0) followed by $limit n (only when n > 0)
SkipLimit(s, skip, limit) ==
    LET a == IF skip > 0 THEN SubSeq(s, skip + 1, Len(s)) ELSE s
    IN  IF limit > 0 /\ limit < Len(a) THEN SubSeq(a, 1, limit) ELSE a

\* a read of a collection and the tenant its predicate restricts to
Read(coll, t) == [coll |-> coll, tenant |-> t]

Range(s) == {s[i] : i \in 1..Len(s)}

Max(S) == CHOOSE x \in S : \A y \in S : y <= x

\* Python's floor division for a non-zero divisor
FloorDiv(a, b) == IF b > 0 THEN a \div b ELSE (0 - a) \div (0 - b)

NoRes ==
    [status |-> "none", data |-> <<>>, total_count |-> 0, total_pages |-> 0,
     has_next |-> FALSE, has_prev |-> FALSE, match_query |-> NoMatch,
     error |-> "none", categories |-> {}, mappings |-> {}, available |-> {},
     buckets |-> <<>>, operation_type |-> "none",
     distribution |-> <<>>, total_value |-> 0, total_documents |-> 0,
     from_cache |-> FALSE, entry_age |-> 0, used_stale |-> FALSE, text |-> <<>>,
     executed |-> FALSE, skip_stage |-> 0, limit_stage |-> 0,
     events |-> <<>>, parsed_attempt |-> 0, route |-> "none", terms |-> <<>>,
     response_type |-> "none", error_phase |-> "none", phases |-> <<>>,
     forwarded |-> FALSE]

\* the record of a list pipeline that was run: its $skip and $limit values,
\* 0 for a stage that is absent
Ran(r, skip, limit) ==
    [r EXCEPT !.executed = TRUE,
              !.skip_stage = IF skip > 0 THEN skip ELSE 0,
              !.limit_stage = IF limit > 0 THEN limit ELSE 0]

Raised(q) == [NoRes EXCEPT !.status = "error", !.error = "exception", !.match_query = q]

(***************************************************************************)
(* agent_strucutre/query_builder.py: MongoQueryExecutor                    *)
(***************************************************************************)
\* a base query that does not restrict the tenant
TenantScopeDropped(tenant_id) == "any"

\* the base query {"tenant": tenant_obj_id}
TenantScope(tenant_id) == tenant_id

\* names of category attributes to ids
build_category_lookup(category_names) ==
    {a.id : a \in {x \in category_attributes : x.name \in category_names}}

\* names to ids in a reference collection
build_reference_lookup(collection, names) ==
    {a.id : a \in {x \in Collection(collection) : x.name \in names}}

\* the field a category's condition is written to
ExecField(category) ==
    CASE category = "Language"     -> "geoFocus"
      [] category = "Topics"       -> "topic"
      [] category = "Content Type" -> "contentType"
      [] category = "Custom Tags"  -> "tag"
      [] OTHER                     -> "categoryAttribute"

\* the collection a category's values are looked up in ("" for none)
ExecLookupCollection(category) ==
    CASE category = "Language"     -> ""
      [] category = "Topics"       -> "topics"
      [] category = "Content Type" -> "content_types"
      [] category = "Custom Tags"  -> "custom_tags"
      [] OTHER                     -> "category_attributes"

\* "if not values: continue" (the filtered fetch only); a {include, exclude}
\* mapping is never falsy
ExecSkipped(e, skipEmpty) == skipEmpty /\ e.kind # "dict" /\ e.include = {}

\* find({"name": {"$in": values}}) fails when values is not a list
ExecLookupRaises(e) == e.kind = "dict" /\ ExecLookupCollection(e.cat) # ""

\* the condition of one category
ExecCondition(e, o) ==
    IF e.kind = "dict" THEN BadCond(o)
    ELSE CASE e.cat = "Language" -> ValCond(o, e.include)
           [] e.cat \in {"Topics", "Content Type", "Custom Tags"} ->
                  IdCond(o, build_reference_lookup(ExecLookupCollection(e.cat), e.include))
           [] OTHER -> IdCond(o, build_category_lookup(e.include))

\* index of the first entry whose lookup fails, 0 when none does
ExecFirstRaise(filters, skipEmpty) ==
    LET R == {i \in 1..Len(filters) :
                 ~ExecSkipped(filters[i], skipEmpty) /\ ExecLookupRaises(filters[i])}
    IN  IF R = {} THEN 0 ELSE CHOOSE i \in R : \A j \in R : i <= j

\* entries whose condition was built
ExecProcessed(filters, skipEmpty) ==
    {i \in 1..Len(filters) :
        /\ ~ExecSkipped(filters[i], skipEmpty)
        /\ ExecFirstRaise(filters, skipEmpty) = 0
              \/ i < ExecFirstRaise(filters, skipEmpty)}

\* match_query.update(...): a later condition on a field replaces an earlier one
ExecFieldCond(filters, o, field, skipEmpty) ==
    LET S == {i \in ExecProcessed(filters, skipEmpty) :
                 ExecField(filters[i].cat) = field}
    IN  IF S = {} THEN NoCond ELSE ExecCondition(filters[Max(S)], o)

\* the match query of a filter: tenant, date, marketing and category conditions
ExecMatchQuery(tenant_id, filters, date_filter, marketing_filter, o, skipEmpty) ==
    [tenant |-> TenantScope(tenant_id),
     gte |-> date_filter.start, lte |-> date_filter.end,
     isMarketingContent |-> marketing_filter,
     geoFocus          |-> ExecFieldCond(filters, o, "geoFocus", skipEmpty),
     topic             |-> ExecFieldCond(filters, o, "topic", skipEmpty),
     contentType       |-> ExecFieldCond(filters, o, "contentType", skipEmpty),
     tag               |-> ExecFieldCond(filters, o, "tag", skipEmpty),
     categoryAttribute |-> ExecFieldCond(filters, o, "categoryAttribute", skipEmpty),
     hasOr |-> FALSE, terms |-> {}, hasDetails |-> FALSE, details |-> {}]

\* the reads of the value-to-id lookups, up to and including a failing one
\* (a lookup of an empty list returns without reading)
ExecLookupReads(filters, skipEmpty) ==
    {Read(ExecLookupCollection(filters[i].cat), "none") :
        i \in {j \in 1..Len(filters) :
                  /\ filters[j].kind = "dict" \/ filters[j].include # {}
                  /\ ExecLookupCollection(filters[j].cat) # ""
                  /\ ExecFirstRaise(filters, skipEmpty) = 0
                        \/ j <= ExecFirstRaise(filters, skipEmpty)}}

\* the four $lookup stages of _build_lookup_pipeline join by _id only
LookupStageReads ==
    {Read("topics", "none"), Read("content_types", "none"),
     Read("category_attributes", "none"), Read("custom_tags", "none")}

\* the reads of one filtered fetch or search
ExecFetchReads(filters, q, skipEmpty) ==
    ExecLookupReads(filters, skipEmpty) \cup
    (IF ExecFirstRaise(filters, skipEmpty) # 0 THEN {}
     ELSE IF QueryIsBad(q) THEN {Read("sitemaps", q.tenant)}
     ELSE {Read("sitemaps", q.tenant)} \cup LookupStageReads)

\* skip = page * page_size: the first page is skipped
PageSkipFromZero(page, page_size) == page * page_size

\* skip = (page - 1) * page_size
PageSkip(page, page_size) == (page - 1) * page_size

\* total_pages = total_count // page_size: a partial last page is not counted
TotalPagesFloor(total_count, page_size) == FloorDiv(total_count, page_size)

\* total_pages = (total_count + page_size - 1) // page_size
TotalPages(total_count, page_size) == FloorDiv(total_count + page_size - 1, page_size)

\* MongoQueryExecutor.fetch_content_by_filters: the count pipeline and the
\* data pipeline run before total_pages divides by page_size
ExecFetchContentByFilters(tenant_id, filters, date_filter, marketing_filter, is_negation, page, page_size) ==
    LET q == ExecMatchQuery(tenant_id, filters, date_filter, marketing_filter,
                            IF is_negation THEN "nin" ELSE "in", TRUE)
        skip == PageSkip(page, page_size)
        all == SortedIds(MatchedIds(q))
        total_count == Len(all)
        total_pages == TotalPages(total_count, page_size)
    IN  IF ExecFirstRaise(filters, TRUE) # 0 \/ QueryIsBad(q)
        THEN Raised(q)
        ELSE IF page_size = 0
        THEN Ran(Raised(q), skip, page_size)
        ELSE Ran([NoRes EXCEPT !.status = "ok",
                               !.data = SkipLimit(all, skip, page_size),
                               !.total_count = total_count,
                               !.total_pages = total_pages,
                               !.has_next = (page < total_pages),
                               !.has_prev = (page > 1),
                               !.match_query = q],
                 skip, page_size)

\* the fixed limit of a search
SearchLimit == 50

\* MongoQueryExecutor.fetch_content_by_semantic_search
ExecSemanticSearch(tenant_id, search_terms, additional_filters) ==
    LET base == ExecMatchQuery(tenant_id, additional_filters, NoDate, "none",
                               "in", FALSE)
        q == IF search_terms # {}
             THEN [base EXCEPT !.hasOr = TRUE, !.terms = search_terms]
             ELSE base
    IN  IF \/ ExecFirstRaise(additional_filters, FALSE) # 0
           \/ \E term \in search_terms : ~TermCompiles(term)
           \/ QueryIsBad(q)
        THEN Raised(base)
        ELSE Ran([NoRes EXCEPT !.status = "ok",
                               !.data = SkipLimit(SortedIds(MatchedIds(q)), 0, SearchLimit),
                               !.match_query = q],
                 0, SearchLimit)

\* the reads of one search: nothing is executed when a term does not compile
ExecSearchReads(search_terms, additional_filters, q) ==
    IF \E term \in search_terms : ~TermCompiles(term)
    THEN ExecLookupReads(additional_filters, FALSE)
    ELSE ExecFetchReads(additional_filters, q, FALSE)

\* a direct call of the executor's search
Executor_fetch_content_by_semantic_search ==
    /\ pc = "idle"
    /\ \E t \in Tenants, f \in FiltersOver(ListEntries, MaxConstraints),
          st \in {S \in SUBSET Terms : Cardinality(S) <= MaxTerms} :
          /\ Len(f) + Cardinality(st) <= MaxConstraints
          /\ req' = [NoReq EXCEPT !.op = "exec_search", !.tenant_id = t,
                                  !.filters = f, !.search_terms = st]
          /\ res' = ExecSemanticSearch(t, st, f)
          /\ reads' = ExecSearchReads(st, f, res'.match_query)
    /\ pc' = "done"
    /\ UNCHANGED <<cacheVars, threadVars, svcVars>>

\* str.lower() on the names of the fixture
LowerName(v) ==
    CASE v = "Businesses" -> "businesses" [] v = "Investors" -> "investors"
      [] v = "English" -> "english" [] v = "German" -> "german"
      [] v = "Crypto" -> "crypto" [] v = "Stocks" -> "stocks"
      [] v = "Blog" -> "blog" [] v = "Video" -> "video"
      [] v = "Gated" -> "gated" [] v = "News" -> "news"
      [] OTHER -> v

\* the group key of a record without the grouped field
NullValue == "<null>"

\* the names a reference resolves to through a $lookup by _id
LookupNames(collection, ids) ==
    {<<x.id, x.name>> : x \in {y \in Collection(collection) : y.id \in ids}}

\* the <<element, group key>> pairs one record contributes to the grouping
DistKeys(d, category) ==
    CASE category = "Language" ->
             IF d.geoFocus = {} THEN {<<0, NullValue>>}
             ELSE {<<0, g>> : g \in d.geoFocus}
      [] category = "Topics" -> LookupNames("topics", d.topic)
      [] category = "Content Type" -> LookupNames("content_types", d.contentType)
      [] category = "Custom Tags" -> LookupNames("custom_tags", d.tag)
      [] OTHER ->
             {<<a.id, a.name>> :
                 a \in {x \in category_attributes :
                           /\ x.id \in d.categoryAttribute
                           /\ \E c \in categories :
                                  c.id = x.category /\ c.name = category}}

\* $group by key with {"$sum": 1}
DistGroups(ids, category) ==
    LET pairs == UNION {{<<i, k[1], k[2]>> : k \in DistKeys(Doc(i), category)} : i \in ids}
    IN  {[value |-> v, count |-> Cardinality({p \in pairs : p[3] = v})] :
            v \in {p[3] : p \in pairs}}

\* sum(item["count"] for item in results)
RECURSIVE SumCounts(_)
SumCounts(B) ==
    IF B = {} THEN 0
    ELSE LET b == CHOOSE x \in B : TRUE IN b.count + SumCounts(B \ {b})

\* {"$sort": {"count": -1}}: the order of buckets of equal count is the
\* store's to choose and no claim depends on it
RECURSIVE SortByCountDesc(_)
SortByCountDesc(B) ==
    IF B = {} THEN <<>>
    ELSE LET b == CHOOSE x \in B : \A y \in B : y.count <= x.count
         IN  <<b>> \o SortByCountDesc(B \ {b})

\* normalized_values = [v.lower() for v in values]: iterating a mapping
\* yields its keys
NormalizedValues(e) ==
    IF e.kind = "dict" THEN {"include", "exclude"}
    ELSE {LowerName(v) : v \in e.include}

\* "if values:" is true for a non-empty list and for every mapping
ValuesTruthy(e) == e.kind = "dict" \/ e.include # {}

\* the reads of the grouping stages
DistStageReads(category) ==
    CASE category = "Language" -> {}
      [] category \in {"Topics", "Content Type", "Custom Tags"} ->
             {Read(ExecLookupCollection(category), "none")}
      [] OTHER -> {Read("category_attributes", "none"), Read("categories", "none")}

\* MongoQueryExecutor.fetch_content_by_distribution; main is the entry of the
\* grouped category (its values restrict the buckets)
ExecDistribution(tenant_id, main, additional_filters) ==
    LET q == ExecMatchQuery(tenant_id, additional_filters, NoDate, "none",
                            "in", FALSE)
        groups == DistGroups(MatchedIds(q), main.cat)
    IN  IF ExecFirstRaise(additional_filters, FALSE) # 0 \/ QueryIsBad(q)
        THEN Raised(q)
        ELSE [NoRes EXCEPT
                 !.status = "ok",
                 !.buckets = SortByCountDesc(
                                 IF ValuesTruthy(main)
                                 THEN {b \in groups :
                                          LowerName(IF b.value = NullValue THEN ""
                                                    ELSE b.value)
                                              \in NormalizedValues(main)}
                                 ELSE groups),
                 !.match_query = q]

ExecDistributionReads(main, additional_filters, q) ==
    ExecLookupReads(additional_filters, FALSE) \cup
    (IF ExecFirstRaise(additional_filters, FALSE) # 0 THEN {}
     ELSE {Read("sitemaps", q.tenant)} \cup
          (IF QueryIsBad(q) THEN {} ELSE DistStageReads(main.cat)))

\* a direct call of the executor's distribution
Executor_fetch_content_by_distribution ==
    /\ pc = "idle"
    /\ \E t \in Tenants, main \in ListEntries,
          f \in FiltersOver(ListEntries, MaxConstraints) :
          /\ 1 + Len(f) <= MaxConstraints
          /\ \A i \in 1..Len(f) : f[i].cat # main.cat
          /\ req' = [NoReq EXCEPT !.op = "exec_distribution", !.tenant_id = t,
                                  !.filters = <<main>> \o f]
          /\ res' = ExecDistribution(t, main, f)
          /\ reads' = ExecDistributionReads(main, f, res'.match_query)
    /\ pc' = "done"
    /\ UNCHANGED <<cacheVars, threadVars, svcVars>>

\* a direct call of the executor's filtered fetch
Executor_fetch_content_by_filters ==
    /\ pc = "idle"
    /\ \E t \in Tenants, f \in FiltersOver(ListEntries, MaxConstraints),
          df \in DateFilters, mf \in MarketingFilters, neg \in BOOLEAN,
          page \in Pages, page_size \in PageSizes :
          /\ Constraints(f, df, mf, page, page_size) <= MaxConstraints
          /\ req' = [NoReq EXCEPT !.op = "exec_filters", !.tenant_id = t,
                                  !.filters = f, !.is_negation = neg,
                                  !.date_filter = df, !.marketing_filter = mf,
                                  !.page = page, !.page_size = page_size]
          /\ res' = ExecFetchContentByFilters(t, f, df, mf, neg, page, page_size)
          /\ reads' = ExecFetchReads(f, res'.match_query, TRUE)
    /\ pc' = "done"
    /\ UNCHANGED <<cacheVars, threadVars, svcVars>>

(***************************************************************************)
(* database/extractor.py and database/queries.py                           *)
(***************************************************************************)
\* the categories of the static schema
StaticCategories ==
    {"Primary Audience", "Secondary Audience", "Topic", "Content Type", "Language"}

NoMapping ==
    [field_path |-> "", requires_join |-> FALSE, reference_collection |-> "",
     has_filter |-> FALSE, filter_value |-> 0]

\* the static schema's field mappings, with their hard-coded filter_value ids
StaticMapping(category) ==
    CASE category = "Primary Audience" ->
             [field_path |-> "categoryAttribute", requires_join |-> TRUE,
              reference_collection |-> "category_attributes",
              has_filter |-> TRUE, filter_value |-> 1]
      [] category = "Secondary Audience" ->
             [field_path |-> "categoryAttribute", requires_join |-> TRUE,
              reference_collection |-> "category_attributes",
              has_filter |-> TRUE, filter_value |-> 2]
      [] category = "Topic" ->
             [field_path |-> "topic", requires_join |-> TRUE,
              reference_collection |-> "topics",
              has_filter |-> FALSE, filter_value |-> 0]
      [] category = "Content Type" ->
             [field_path |-> "contentType", requires_join |-> TRUE,
              reference_collection |-> "content_types",
              has_filter |-> FALSE, filter_value |-> 0]
      [] category = "Language" ->
             [field_path |-> "geoFocus", requires_join |-> FALSE,
              reference_collection |-> "", has_filter |-> FALSE, filter_value |-> 0]
      [] OTHER -> NoMapping

\* tenant_schema.field_mappings.get(name) returned a mapping
HasMapping(category) == category \in StaticCategories

\* the category-attribute lookup: names, parent category and tenant
resolve_category_values_to_ids(tenant_id, category_name, values) ==
    IF ~HasMapping(category_name) \/ ~StaticMapping(category_name).has_filter
    THEN {}
    ELSE {a.id : a \in {x \in category_attributes :
                           /\ x.name \in values
                           /\ x.category = StaticMapping(category_name).filter_value
                           /\ x.tenant = tenant_id}}

\* find_one by name and tenant, once per value
resolve_friendly_names_to_ids(collection_name, values, tenant_id) ==
    {a.id : a \in {x \in Collection(collection_name) :
                       x.name \in values /\ x.tenant = tenant_id}}

\* the round trip of a call that fails, if any: the value-to-id lookups or
\* the find / count on sitemaps
Failures == {"none", "resolve", "find"}

\* the resolvers catch the exception of a failed lookup and return [] or None
Resolved(failure, ids) == IF failure = "resolve" THEN {} ELSE ids

\* except Exception: log_error(...); return [] (0, or empty data and total)
FailureSwallowed(r) == [NoRes EXCEPT !.status = "ok", !.match_query = r.match_query]

DbIsCategoryEntry(e) ==
    HasMapping(e.cat) /\ StaticMapping(e.cat).field_path = "categoryAttribute"
                      /\ StaticMapping(e.cat).has_filter

\* the condition an entry writes to query_filters[mapping.field_path]
DbCondition(failure, tenant_id, e) ==
    LET m == StaticMapping(e.cat)
        ids == Resolved(failure, resolve_friendly_names_to_ids(m.reference_collection,
                                                               e.include, tenant_id))
    IN  IF m.requires_join
        THEN IF Cardinality(ids) = 1 THEN IdCond("eq", ids)
             ELSE IF Cardinality(ids) > 1 THEN IdCond("in", ids)
             ELSE NoCond
        ELSE IF Cardinality(e.include) = 1 THEN ValCond("eq", e.include)
             ELSE ValCond("in", e.include)

\* entries that write a condition to the given field
DbWriters(failure, tenant_id, filters, field) ==
    {i \in 1..Len(filters) :
        /\ HasMapping(filters[i].cat)
        /\ ~DbIsCategoryEntry(filters[i])
        /\ StaticMapping(filters[i].cat).field_path = field
        /\ DbCondition(failure, tenant_id, filters[i]) # NoCond}

DbFieldCond(failure, tenant_id, filters, field) ==
    LET S == DbWriters(failure, tenant_id, filters, field)
    IN  IF S = {} THEN NoCond ELSE DbCondition(failure, tenant_id, filters[Max(S)])

\* category_conditions: the ids of every category-attribute entry, pooled
DbCategoryConditions(failure, tenant_id, filters) ==
    UNION {Resolved(failure, resolve_category_values_to_ids(tenant_id, filters[i].cat,
                                                            filters[i].include)) :
              i \in {j \in 1..Len(filters) : DbIsCategoryEntry(filters[j])}}

\* _resolve_complex_filters_to_query, merged into {"tenant": ObjectId(tenant_id)}
DbMongoFilters(failure, tenant_id, filters) ==
    [NoMatch EXCEPT
        !.tenant = tenant_id,
        !.geoFocus = DbFieldCond(failure, tenant_id, filters, "geoFocus"),
        !.topic = DbFieldCond(failure, tenant_id, filters, "topic"),
        !.contentType = DbFieldCond(failure, tenant_id, filters, "contentType"),
        !.categoryAttribute =
            IF DbCategoryConditions(failure, tenant_id, filters) # {}
            THEN IdCond("all", DbCategoryConditions(failure, tenant_id, filters))
            ELSE NoCond]

\* the reads of the value-to-id resolution
DbResolveReads(tenant_id, filters) ==
    {Read(StaticMapping(filters[i].cat).reference_collection, tenant_id) :
        i \in {j \in 1..Len(filters) :
                  /\ HasMapping(filters[j].cat)
                  /\ StaticMapping(filters[j].cat).requires_join
                  /\ DbIsCategoryEntry(filters[j]) \/ filters[j].include # {}}}

\* _clean_content_doc_enhanced resolves the references of a document by _id
DbCleanReads(ids) ==
    UNION {  (IF Doc(i).categoryAttribute # {} THEN {Read("category_attributes", "none")} ELSE {})
        \cup (IF Doc(i).topic # {} THEN {Read("topics", "none")} ELSE {})
        \cup (IF Doc(i).contentType # {} THEN {Read("content_types", "none")} ELSE {})
           : i \in ids}

\* cursor.skip(skip).limit(limit): a limit of 0 is no limit
DbCursor(q, skip, limit) == SkipLimit(SortedIds(MatchedIds(q)), skip, limit)

\* database/queries.py fetch_content_by_filters
DbFetchContentByFilters(failure, tenant_id, filters, limit, skip) ==
    LET q == DbMongoFilters(failure, tenant_id, filters)
        r == [NoRes EXCEPT !.match_query = q]
    IN  IF failure = "find" THEN FailureSwallowed(r)
        ELSE Ran([NoRes EXCEPT !.status = "ok", !.data = DbCursor(q, skip, limit),
                               !.match_query = q],
                 skip, limit)

\* database/queries.py fetch_content_count
DbFetchContentCount(failure, tenant_id, filters) ==
    LET q == DbMongoFilters(failure, tenant_id, filters)
        r == [NoRes EXCEPT !.match_query = q]
    IN  IF failure = "find" THEN FailureSwallowed(r)
        ELSE [NoRes EXCEPT !.status = "ok", !.total_count = Cardinality(MatchedIds(q)),
                           !.match_query = q]

\* the $all list of fetch_content_with_complex_filters
DbComplexConditions(failure, tenant_id, category_filters) ==
    UNION {Resolved(failure, resolve_category_values_to_ids(tenant_id,
                                                            category_filters[i].cat,
                                                            category_filters[i].include)) :
              i \in 1..Len(category_filters)}

\* database/queries.py fetch_content_with_complex_filters (no additional filters)
DbFetchContentWithComplexFilters(failure, tenant_id, category_filters, limit, skip) ==
    LET ids == DbComplexConditions(failure, tenant_id, category_filters)
        q == [NoMatch EXCEPT !.tenant = tenant_id,
                             !.categoryAttribute =
                                 IF ids # {} THEN IdCond("all", ids) ELSE NoCond]
        r == [NoRes EXCEPT !.match_query = q]
    IN  IF failure = "find" THEN FailureSwallowed(r)
        ELSE Ran([NoRes EXCEPT !.status = "ok", !.data = DbCursor(q, skip, limit),
                               !.total_count = Cardinality(MatchedIds(q)),
                               !.match_query = q],
                 skip, limit)

\* the <<element, group key>> pairs one record contributes to the grouping
\* of fetch_distribution_analysis: attribute names under the mapping's
\* filter_value, or the raw value of the mapped field
DbDistKeys(d, m) ==
    CASE m.field_path = "categoryAttribute" ->
             {<<a.id, a.name>> :
                 a \in {x \in category_attributes :
                           x.id \in d.categoryAttribute /\ x.category = m.filter_value}}
      [] m.field_path = "geoFocus" ->
             IF d.geoFocus = {} THEN {<<0, NullValue>>}
             ELSE {<<0, g>> : g \in d.geoFocus}
      [] m.field_path = "topic" ->
             IF d.topic = {} THEN {<<0, NullValue>>}
             ELSE {<<i, ToString(i)>> : i \in d.topic}
      [] OTHER ->
             IF d.contentType = {} THEN {<<0, NullValue>>}
             ELSE {<<i, ToString(i)>> : i \in d.contentType}

\* database/queries.py fetch_distribution_analysis (no secondary field)
DbFetchDistributionAnalysis(tenant_id, primary_field) ==
    LET m == StaticMapping(primary_field)
        q == [NoMatch EXCEPT !.tenant = tenant_id]
        pairs == UNION {{<<i, k[1], k[2]>> : k \in DbDistKeys(Doc(i), m)} :
                           i \in MatchedIds(q)}
        groups == {[value |-> v, count |-> Cardinality({p \in pairs : p[3] = v})] :
                      v \in {p[3] : p \in pairs}}
    IN  IF ~HasMapping(primary_field)
        THEN [NoRes EXCEPT !.status = "error", !.error = "field_not_found"]
        ELSE [NoRes EXCEPT !.status = "ok", !.buckets = SortByCountDesc(groups),
                           !.total_count = SumCounts(groups), !.match_query = q]

queries_fetch_distribution_analysis ==
    /\ pc = "idle"
    /\ \E t \in Tenants, c \in CategoryNames :
          /\ req' = [NoReq EXCEPT !.op = "db_distribution", !.tenant_id = t,
                                  !.filters = <<[cat |-> c, kind |-> "list",
                                                 include |-> {}, exclude |-> {}]>>]
          /\ res' = DbFetchDistributionAnalysis(t, c)
          /\ reads' = IF ~HasMapping(c) THEN {}
                      ELSE {Read("sitemaps", t)} \cup
                           (IF StaticMapping(c).field_path = "categoryAttribute"
                            THEN {Read("category_attributes", "none")} ELSE {})
    /\ pc' = "done"
    /\ UNCHANGED <<cacheVars, threadVars, svcVars>>

DefaultLimit == 30

Limits == {1, DefaultLimit}

queries_fetch_content_by_filters ==
    /\ pc = "idle"
    /\ \E t \in Tenants, f \in FiltersOver(ListEntries, MaxConstraints),
          limit \in Limits, skip \in 0..1, failure \in Failures :
          /\ Len(f) + B2N(limit # DefaultLimit) + skip + B2N(failure # "none")
                 <= MaxConstraints
          /\ req' = [NoReq EXCEPT !.op = "db_filters", !.tenant_id = t,
                                  !.filters = f, !.page = skip, !.page_size = limit,
                                  !.failure = failure]
          /\ res' = DbFetchContentByFilters(failure, t, f, limit, skip)
          /\ reads' = DbResolveReads(t, f) \cup {Read("sitemaps", t)}
                          \cup DbCleanReads(Range(res'.data))
    /\ pc' = "done"
    /\ UNCHANGED <<cacheVars, threadVars, svcVars>>

queries_fetch_content_count ==
    /\ pc = "idle"
    /\ \E t \in Tenants, f \in FiltersOver(ListEntries, MaxConstraints),
          failure \in Failures :
          /\ Len(f) + B2N(failure # "none") <= MaxConstraints
          /\ req' = [NoReq EXCEPT !.op = "db_count", !.tenant_id = t, !.filters = f,
                                  !.failure = failure]
          /\ res' = DbFetchContentCount(failure, t, f)
          /\ reads' = DbResolveReads(t, f) \cup {Read("sitemaps", t)}
    /\ pc' = "done"
    /\ UNCHANGED <<cacheVars, threadVars, svcVars>>

queries_fetch_content_with_complex_filters ==
    /\ pc = "idle"
    /\ \E t \in Tenants, f \in FiltersOver(ListEntries, MaxConstraints),
          limit \in Limits, skip \in 0..1, failure \in Failures :
          /\ Len(f) + B2N(limit # DefaultLimit) + skip + B2N(failure # "none")
                 <= MaxConstraints
          /\ req' = [NoReq EXCEPT !.op = "db_complex", !.tenant_id = t,
                                  !.filters = f, !.page = skip, !.page_size = limit,
                                  !.failure = failure]
          /\ res' = DbFetchContentWithComplexFilters(failure, t, f, limit, skip)
          /\ reads' = {Read("category_attributes", t) :
                          i \in {j \in 1..Len(f) : DbIsCategoryEntry(f[j])}}
                          \cup {Read("sitemaps", t)}
                          \cup DbCleanReads(Range(res'.data))
    /\ pc' = "done"
    /\ UNCHANGED <<cacheVars, threadVars, svcVars>>

(***************************************************************************)
(* Schema extraction: database/category_extracter.py,                      *)
(* database/database_schema.py, database/extractor.py                      *)
(***************************************************************************)
\* the tenant's category of that name, 0 when there is none
\* (_get_category_name_to_id_mapping(...).get(name), _get_category_id)
get_category_id(tenant_id, category_name) ==
    LET S == {c \in categories : c.tenant = tenant_id /\ c.name = category_name}
    IN  IF S = {} THEN 0 ELSE (CHOOSE c \in S : TRUE).id

\* the name of a tenant's category, "" when the id is not among them
CategoryNameOf(tenant, category_id) ==
    LET S == {c \in categories : c.tenant = tenant /\ c.id = category_id}
    IN  IF S = {} THEN "" ELSE (CHOOSE c \in S : TRUE).name

\* the <<category, value>> pairs found by the finds of extract_categorical_fields
\* when each of them is restricted to the given tenant
CategoricalFieldsOf(tenant) ==
    LET docs == {d \in sitemaps : d.tenant = tenant}
        attrs == {a \in category_attributes :
                     a.tenant = tenant /\ CategoryNameOf(tenant, a.category) # ""}
    IN  {<<CategoryNameOf(tenant, a.category), a.name>> :
            a \in {x \in attrs : \E d \in docs : x.id \in d.categoryAttribute}}
        \cup {<<"Language", g>> : g \in UNION {d.geoFocus : d \in docs}}
        \cup {<<"Content Type", c.name>> : c \in {x \in content_types : x.tenant = tenant}}
        \cup {<<"Custom Tags", c.name>> : c \in {x \in custom_tags : x.tenant = tenant}}
        \cup {<<"Topics", c.name>> : c \in {x \in topics : x.tenant = tenant}}

\* extract_categorical_fields(): every find is restricted to TENANT_ID
extract_categorical_fields == CategoricalFieldsOf(TENANT_ID)

\* _create_field_mapping: the filter_value of a category's mapping (0 for a
\* mapping without one, -1 when no mapping is created)
CreateFieldMapping(category_name, category_id) ==
    IF category_name \in {"Language", "Content Type", "Custom Tags", "Topics"} THEN 0
    ELSE IF category_id # 0 THEN category_id
    ELSE -1

\* _discover_field_mappings: category ids are looked up for the requested tenant
DiscoverFieldMappings(tenant_id, cats) ==
    {m \in {<<p[1], CreateFieldMapping(p[1], get_category_id(tenant_id, p[1]))>> :
               p \in cats} : m[2] # -1}

\* SimplifiedSchemaExtractor.extract_tenant_schema
ExtractTenantSchema(tenant_id) ==
    [NoRes EXCEPT !.status = "ok",
                  !.categories = extract_categorical_fields,
                  !.mappings = DiscoverFieldMappings(tenant_id, extract_categorical_fields)]

\* the values of the static schema's categories
StaticCategoryValues ==
    {<<"Primary Audience", "Businesses">>, <<"Primary Audience", "Investors">>,
     <<"Secondary Audience", "Businesses">>}

\* DynamicTenantSchemaExtractor.extract_schema: the same schema for every tenant
ExtractSchema(tenant_id) ==
    [NoRes EXCEPT !.status = "ok",
                  !.categories = StaticCategoryValues,
                  !.mappings = {<<c, StaticMapping(c).filter_value>> :
                                   c \in StaticCategories}]

SimplifiedSchemaExtractor_extract_tenant_schema ==
    /\ pc = "idle"
    /\ \E t \in Tenants :
          /\ req' = [NoReq EXCEPT !.op = "simplified_schema", !.tenant_id = t]
          /\ res' = ExtractTenantSchema(t)
          /\ reads' = {Read(c, TENANT_ID) :
                          c \in {"categories", "category_attributes", "sitemaps",
                                 "content_types", "custom_tags", "topics"}}
                       \cup {Read("categories", t)}
    /\ pc' = "done"
    /\ UNCHANGED <<cacheVars, threadVars, svcVars>>

DynamicTenantSchemaExtractor_extract_schema ==
    /\ pc = "idle"
    /\ \E t \in Tenants :
          /\ req' = [NoReq EXCEPT !.op = "static_schema", !.tenant_id = t]
          /\ res' = ExtractSchema(t)
          /\ reads' = {}
    /\ pc' = "done"
    /\ UNCHANGED <<cacheVars, threadVars, svcVars>>

(***************************************************************************)
(* controlflow_core/tools.py                                               *)
(***************************************************************************)
\* validate_category_values: the category is looked up in schema.categories
ValidateCategoryValues(tenant_id, category_name, values) ==
    LET schema == ExtractSchema(tenant_id).categories
        names == {p[1] : p \in schema}
        available_values == {p[2] : p \in {x \in schema : x[1] = category_name}}
    IN  IF category_name \notin names
        THEN [NoRes EXCEPT !.status = "ok", !.error = "UnknownCategory",
                           !.available = names]
        ELSE [NoRes EXCEPT !.status = "ok",
                           !.error = IF values \subseteq available_values
                                     THEN "none" ELSE "InvalidValues",
                           !.available = available_values]

validate_category_values ==
    /\ pc = "idle"
    /\ \E t \in Tenants, e \in ListEntries :
          /\ req' = [NoReq EXCEPT !.op = "validate", !.tenant_id = t,
                                  !.filters = <<e>>]
          /\ res' = ValidateCategoryValues(t, e.cat, e.include)
          /\ reads' = {}
    /\ pc' = "done"
    /\ UNCHANGED <<cacheVars, threadVars, svcVars>>

(***************************************************************************)
(* agent_workflow/query_builder.py: MongoQueryBuilder                      *)
(***************************************************************************)
\* _build_category_filters: one $and per category that has values and an id
BuildCategoryFilters(tenant_id, filters) ==
    {[category |-> get_category_id(tenant_id, filters[i].cat),
      names |-> filters[i].include] :
        i \in {j \in 1..Len(filters) :
                  /\ filters[j].include # {}
                  /\ get_category_id(tenant_id, filters[j].cat) # 0}}

\* the $match stages of _build_list_query
BuildListQuery(tenant_id, filters, semantic_terms) ==
    [NoMatch EXCEPT
        !.tenant = tenant_id,
        !.hasDetails = (BuildCategoryFilters(tenant_id, filters) # {}),
        !.details = BuildCategoryFilters(tenant_id, filters),
        !.hasOr = (semantic_terms # {}),
        !.terms = semantic_terms]

\* {"$sort": {"createdAt": -1}}
RECURSIVE SortedByCreatedAtDesc(_)
SortedByCreatedAtDesc(S) ==
    IF S = {} THEN <<>>
    ELSE LET m == CHOOSE x \in S : \A y \in S :
                      \/ Doc(x).createdAt > Doc(y).createdAt
                      \/ Doc(x).createdAt = Doc(y).createdAt /\ x <= y
         IN  <<m>> \o SortedByCreatedAtDesc(S \ {m})

\* the $limit of every pipeline the builder assembles
BuilderLimit == 300

\* build_query("list") followed by execute_query, which returns None when
\* the aggregation fails
WorkflowListQuery(tenant_id, filters, semantic_terms) ==
    LET q == BuildListQuery(tenant_id, filters, semantic_terms)
    IN  IF \E term \in semantic_terms : ~TermCompiles(term)
        THEN [NoRes EXCEPT !.status = "error", !.error = "none_returned",
                           !.match_query = q]
        ELSE Ran([NoRes EXCEPT !.status = "ok",
                               !.data = SkipLimit(SortedByCreatedAtDesc(MatchedIds(q)),
                                                  0, BuilderLimit),
                               !.match_query = q],
                 0, BuilderLimit)

\* the reads of build_query("list") and execute_query
WorkflowReads(tenant_id, filters) ==
    {Read("sitemaps", tenant_id)}
    \cup {Read("categories", tenant_id) :
              i \in {j \in 1..Len(filters) : filters[j].include # {}}}
    \cup (IF Len(filters) > 0 THEN {Read("category_attributes", "none")} ELSE {})

MongoQueryBuilder_list_query ==
    /\ pc = "idle"
    /\ \E t \in Tenants, f \in FiltersOver(ListEntries, MaxConstraints),
          st \in {S \in SUBSET Terms : Cardinality(S) <= MaxTerms} :
          /\ Len(f) + Cardinality(st) <= MaxConstraints
          /\ req' = [NoReq EXCEPT !.op = "wf_list", !.tenant_id = t,
                                  !.filters = f, !.search_terms = st]
          /\ res' = WorkflowListQuery(t, f, st)
          /\ reads' = WorkflowReads(t, f)
    /\ pc' = "done"
    /\ UNCHANGED <<cacheVars, threadVars, svcVars>>

\* the query specifications a caller may hand to execute_query: the
\* operation and the tenant its first stage (or filter) restricts to,
\* "any" when it restricts to none
QuerySpecs == [operation : {"aggregate", "count_documents", "find", "drop"},
               tenant : Tenants \cup {"any"}]

\* MongoQueryBuilder.execute_query(mongo_db, query_spec)
ExecuteQuerySpec(query_spec) ==
    LET q == [NoMatch EXCEPT !.tenant = query_spec.tenant]
        all == SortedIds(MatchedIds(q))
    IN  CASE query_spec.operation = "aggregate" ->
                 Ran([NoRes EXCEPT !.status = "ok", !.data = all, !.match_query = q], 0, 0)
          [] query_spec.operation = "count_documents" ->
                 Ran([NoRes EXCEPT !.status = "ok", !.total_count = Len(all),
                                   !.match_query = q], 0, 0)
          [] query_spec.operation = "find" ->
                 Ran([NoRes EXCEPT !.status = "ok",
                                   !.data = SkipLimit(all, 0, BuilderLimit),
                                   !.match_query = q], 0, BuilderLimit)
          [] OTHER ->
                 [NoRes EXCEPT !.status = "error", !.error = "none_returned"]

MongoQueryBuilder_execute_query ==
    /\ pc = "idle"
    /\ \E query_spec \in QuerySpecs :
          /\ req' = [NoReq EXCEPT !.op = "wf_execute",
                                  !.operation = query_spec.operation,
                                  !.spec_tenant = query_spec.tenant]
          /\ res' = ExecuteQuerySpec(query_spec)
          /\ reads' = IF query_spec.operation = "drop" THEN {}
                      ELSE {Read("sitemaps", IF query_spec.tenant = "any" THEN "none"
                                             ELSE query_spec.tenant)}
    /\ pc' = "done"
    /\ UNCHANGED <<cacheVars, threadVars, svcVars>>

(***************************************************************************)
(* agent_strucutre/query_parser.py and agent_strucutre/query_router.py     *)
(***************************************************************************)
\* the categories the parser's tool schema offers to the language model
RouterCategories == {"Language", "Topics", "Primary Audience", "Secondary Audience"}

\* the filter entries the language model may answer with, by the shape of
\* their values: mappings, lists or single values
RawEntries(kind) == {e \in ListEntries \cup DictEntries \cup ScalarEntries :
                        e.cat \in RouterCategories /\ e.kind = kind}

EntryWeight(e) ==
    IF e.include # {} /\ e.exclude # {} THEN 2 ELSE 1

\* the filters of at most the given weight, with distinct categories
RECURSIVE FiltersOfWeight(_, _)
FiltersOfWeight(entries, w) ==
    IF w <= 0 THEN {<<>>}
    ELSE {<<>>} \cup
         UNION {{<<e>> \o f :
                    f \in {g \in FiltersOfWeight(entries, w - EntryWeight(e)) :
                              \A i \in 1..Len(g) : g[i].cat # e.cat}} :
                  e \in {x \in entries : EntryWeight(x) <= w}}

\* the filters the language model may answer with
RawFilters ==
    UNION {FiltersOfWeight(RawEntries(kind), MaxConstraints) :
              kind \in {"dict", "list", "scalar"}}

\* SmartQueryParser.parse: every value becomes an {include, exclude} mapping
ParseFilters(filters) ==
    [i \in 1..Len(filters) |->
        [cat |-> filters[i].cat, kind |-> "dict",
         include |-> filters[i].include, exclude |-> filters[i].exclude]]

\* the filters the router hands to the executor
RouterFilters(parsed_filters) == parsed_filters

Failure(operation_type, message) ==
    [NoRes EXCEPT !.status = "error", !.operation_type = operation_type,
                  !.error = message]

\* QueryRouter._execute_list_query
ExecuteListQuery(tenant_id, filters, date_filter, marketing_filter, is_negation, page, page_size) ==
    LET r == ExecFetchContentByFilters(tenant_id, RouterFilters(filters), date_filter,
                                       marketing_filter, is_negation, page, page_size)
    IN  IF r.status = "error"
        THEN [Failure("list", "List query failed") EXCEPT !.match_query = r.match_query]
        ELSE [r EXCEPT !.operation_type = "list"]

\* QueryRouter._execute_distribution_query
ExecuteDistributionQuery(tenant_id, filters) ==
    IF Len(filters) = 0
    THEN Failure("distribution", "No category specified for distribution query")
    ELSE LET r == ExecDistribution(tenant_id, RouterFilters(filters)[1],
                                   Tail(RouterFilters(filters)))
         IN  IF r.status = "error"
             THEN [Failure("distribution", "Distribution query failed")
                      EXCEPT !.match_query = r.match_query]
             ELSE [r EXCEPT !.operation_type = "distribution",
                            !.total_count = SumCounts(Range(r.buckets))]

\* QueryRouter._execute_semantic_query
ExecuteSemanticQuery(tenant_id, filters, semantic_terms) ==
    LET r == ExecSemanticSearch(tenant_id, semantic_terms, RouterFilters(filters))
    IN  IF r.status = "error"
        THEN [Failure("semantic", "Semantic query failed") EXCEPT !.match_query = r.match_query]
        ELSE [r EXCEPT !.operation_type = "semantic", !.total_count = Len(r.data)]

Operations == {"pure_advisory", "list", "distribution", "semantic", "other"}

\* a router that treats every other operation as a search
RouteQueryDefaultSemantic(tenant_id, operation, filters, date_filter, marketing_filter, is_negation, semantic_terms, page, page_size) ==
    CASE operation = "pure_advisory" ->
             [NoRes EXCEPT !.status = "ok", !.operation_type = "advisory"]
      [] operation = "list" ->
             ExecuteListQuery(tenant_id, filters, date_filter, marketing_filter,
                              is_negation, page, page_size)
      [] operation = "distribution" -> ExecuteDistributionQuery(tenant_id, filters)
      [] OTHER -> ExecuteSemanticQuery(tenant_id, filters, semantic_terms)
\* QueryRouter.execute_query on the parsed query
RouteQuery(tenant_id, operation, filters, date_filter, marketing_filter, is_negation, semantic_terms, page, page_size) ==
    CASE operation = "pure_advisory" ->
             [NoRes EXCEPT !.status = "ok", !.operation_type = "advisory"]
      [] operation = "list" ->
             ExecuteListQuery(tenant_id, filters, date_filter, marketing_filter,
                              is_negation, page, page_size)
      [] operation = "distribution" -> ExecuteDistributionQuery(tenant_id, filters)
      [] operation = "semantic" ->
             ExecuteSemanticQuery(tenant_id, filters, semantic_terms)
      [] OTHER -> Failure("unknown", "Unknown operation")

RouteReads(operation, filters, semantic_terms, q) ==
    CASE operation = "list" -> ExecFetchReads(filters, q, TRUE)
      [] operation = "distribution" ->
             IF Len(filters) = 0 THEN {}
             ELSE ExecDistributionReads(filters[1], Tail(filters), q)
      [] operation = "semantic" -> ExecSearchReads(semantic_terms, filters, q)
      [] OTHER -> {}

\* parsing raised: the query text or tenant id is empty, the tenant has no
\* schema, or the model's answer lacks a required key
QueryRouter_parse_failed ==
    /\ pc = "idle"
    /\ \E t \in Tenants :
          /\ req' = [NoReq EXCEPT !.op = "router_parse_failed", !.tenant_id = t]
          /\ res' = Failure("error", "exception")
          /\ reads' = {}
    /\ pc' = "done"
    /\ UNCHANGED <<cacheVars, threadVars, svcVars>>

\* QueryRouter.execute_query: the language model's answer is any parsed query
QueryRouter_execute_query ==
    /\ pc = "idle"
    /\ \E t \in Tenants, o \in Operations,
          raw \in RawFilters :
        \E df \in IF o \in {"list", "other"} THEN DateFilters ELSE {NoDate},
           mf \in IF o \in {"list", "other"} THEN MarketingFilters ELSE {"none"},
           neg \in IF o \in {"list", "other"} THEN BOOLEAN ELSE {FALSE},
           st \in IF o \in {"semantic", "other"}
                  THEN {S \in SUBSET Terms : Cardinality(S) <= MaxTerms} ELSE {{}} :
          /\ Constraints(raw, df, mf, 1, DefaultPageSize) + Cardinality(st)
                 + B2N(\E i \in 1..Len(raw) : EntryWeight(raw[i]) = 2)
                 <= MaxConstraints
          /\ req' = [NoReq EXCEPT !.op = "router", !.tenant_id = t,
                                  !.operation = o, !.filters = ParseFilters(raw),
                                  !.is_negation = neg, !.date_filter = df,
                                  !.marketing_filter = mf, !.search_terms = st]
          /\ res' = RouteQuery(t, o, ParseFilters(raw), df, mf, neg, st,
                               1, DefaultPageSize)
          /\ reads' = RouteReads(o, RouterFilters(ParseFilters(raw)), st, res'.match_query)
    /\ pc' = "done"
    /\ UNCHANGED <<cacheVars, threadVars, svcVars>>

\* the result is handed to the caller and the request is discarded
(***************************************************************************)
(* agent_workflow/analytics_engine.py: distribution with percentages.      *)
(* A percentage is kept in hundredths of a percent (70.0 is 7000), the     *)
(* two decimals that round(.., 2) keeps.                                   *)
(***************************************************************************)
\* values of the group-by field of a document; NullValue is a missing field
GroupValues == {NullValue, "TOFU", "MOFU", "BOFU"}

\* values of the value field of a document; -1 is a missing field
CountValues == {-1, 0, 2}

AnalyticsDocs == [grp : GroupValues, count : CountValues]

RECURSIVE SeqsUpTo(_, _)
SeqsUpTo(S, n) ==
    IF n = 0 THEN {<<>>}
    ELSE LET shorter == SeqsUpTo(S, n - 1)
         IN  shorter \cup {Append(q, x) : q \in {y \in shorter : Len(y) = n - 1}, x \in S}

\* _extract_field_values(data, field, convert_to_string=True): the values
\* that are not None, in document order
ExtractFieldValues(data) == SelectSeq([i \in 1..Len(data) |-> data[i].grp], LAMBDA g : g # NullValue)

\* Counter(groups): occurrences per key
CounterOf(groups) ==
    [k \in Range(groups) |-> Cardinality({i \in 1..Len(groups) : groups[i] = k})]

\* index of the first occurrence of k: the insertion order of the Counter
FirstIndex(groups, k) == CHOOSE i \in 1..Len(groups) : groups[i] = k /\ \A j \in 1..(i - 1) : groups[j] # k

\* Counter.most_common(): by count descending, equal counts in insertion order
RECURSIVE MostCommon(_, _, _)
MostCommon(distribution, groups, keys) ==
    IF keys = {} THEN <<>>
    ELSE LET k == CHOOSE x \in keys :
                      \A y \in keys \ {x} :
                          \/ distribution[y] < distribution[x]
                          \/ /\ distribution[y] = distribution[x]
                             /\ FirstIndex(groups, x) < FirstIndex(groups, y)
         IN  <<k>> \o MostCommon(distribution, groups, keys \ {k})

\* round(n / d) to the nearest integer, halves to the even neighbour
RoundHalfEven(n, d) ==
    LET q == n \div d
        r == n % d
    IN  IF 2 * r < d THEN q
        ELSE IF 2 * r > d THEN q + 1
        ELSE IF q % 2 = 0 THEN q ELSE q + 1

\* a percentage computed without the factor 100
PercentageOfOne(count, total) == IF total > 0 THEN RoundHalfEven(count * 100, total) ELSE 0

\* round((count / total) * 100, 2) if total > 0 else 0
Percentage(count, total) == IF total > 0 THEN RoundHalfEven(count * 10000, total) ELSE 0

RECURSIVE SumSeq(_)
SumSeq(q) == IF q = <<>> THEN 0 ELSE Head(q) + SumSeq(Tail(q))

\* AnalyticsEngine.analyze_distribution(data, group_by_field, value_field)
AnalyzeDistribution(data, value_field) ==
    LET groups == ExtractFieldValues(data)
        distribution == CounterOf(groups)
        order == MostCommon(distribution, groups, DOMAIN distribution)
        total == SumSeq([i \in 1..Len(order) |-> distribution[order[i]]])
    IN  IF data = <<>>
        THEN [NoRes EXCEPT !.status = "error", !.error = "No data provided"]
        ELSE IF groups = <<>>
        THEN [NoRes EXCEPT !.status = "error", !.error = "No valid values found",
                           !.total_documents = Len(data)]
        ELSE IF value_field # "none"
        \* _calculate_value_distribution returns a plain dict, which has no
        \* most_common: the AttributeError is caught and reported
        THEN [NoRes EXCEPT !.status = "error", !.error = "exception",
                           !.total_documents = Len(data)]
        ELSE [NoRes EXCEPT
                 !.status = "ok", !.total_documents = Len(data),
                 !.total_value = total,
                 !.distribution =
                     [i \in 1..Len(order) |->
                         [category |-> order[i], value |-> distribution[order[i]],
                          percentage |-> Percentage(distribution[order[i]], total)]]]

AnalyticsEngine_analyze_distribution ==
    /\ pc = "idle"
    /\ \E data \in SeqsUpTo(AnalyticsDocs, MaxDocs), value_field \in {"none", "count"} :
          /\ req' = [NoReq EXCEPT !.op = "analyze_distribution", !.data = data,
                                  !.value_field = value_field]
          /\ res' = AnalyzeDistribution(data, value_field)
    /\ reads' = {}
    /\ pc' = "done"
    /\ UNCHANGED <<cacheVars, threadVars, svcVars>>

(***************************************************************************)
(* utils/security.py: sanitize_input. A string is a sequence of            *)
(* characters.                                                             *)
(***************************************************************************)
\* the characters of a message: the operator sign, the semicolon, a word
\* character and a blank
Chars == {"$", ";", "a", " "}

\* [a-zA-Z0-9_]
IsWordChar(c) == c = "a"

\* str.strip()
RECURSIVE StripLeft(_)
StripLeft(q) == IF q # <<>> /\ Head(q) = " " THEN StripLeft(Tail(q)) ELSE q

RECURSIVE StripRight(_)
StripRight(q) ==
    IF q # <<>> /\ q[Len(q)] = " " THEN StripRight(SubSeq(q, 1, Len(q) - 1)) ELSE q

Strip(q) == StripRight(StripLeft(q))

\* the rest of a string after its leading run of word characters
RECURSIVE SkipWord(_)
SkipWord(q) == IF q # <<>> /\ IsWordChar(Head(q)) THEN SkipWord(Tail(q)) ELSE q

\* re.sub(r"\$[a-zA-Z0-9_]+", "", cleaned): one pass from the left
RECURSIVE RemoveOperators(_)
RemoveOperators(q) ==
    IF q = <<>> THEN <<>>
    ELSE IF Head(q) = "$" /\ Len(q) > 1 /\ IsWordChar(q[2])
    THEN RemoveOperators(SkipWord(Tail(q)))
    ELSE <<Head(q)>> \o RemoveOperators(Tail(q))

\* cleaned.replace(";", "")
RemoveSemicolons(q) == SelectSeq(q, LAMBDA c : c # ";")

\* sanitize_input(query) for a string
SanitizeString(query) == RemoveSemicolons(RemoveOperators(Strip(query)))

sanitize_input ==
    /\ pc = "idle"
    /\ \E query \in SeqsUpTo(Chars, MaxLen), is_string \in BOOLEAN :
          /\ ~is_string => query = <<>>
          /\ req' = [NoReq EXCEPT !.op = "sanitize_input", !.text = query,
                                  !.is_string = is_string]
          /\ res' = [NoRes EXCEPT !.status = "ok",
                                  !.text = IF is_string THEN SanitizeString(query)
                                           ELSE <<>>]
    /\ reads' = {}
    /\ pc' = "done"
    /\ UNCHANGED <<cacheVars, threadVars, svcVars>>

(***************************************************************************)
(* Caches: SmartQueryParser._schema_cache (agent_strucutre/query_parser.py) *)
(* and the tenant context and insights caches of agent_strucutre/try_app.py.*)
(* stored_at and stale are history fields: when an entry was stored and    *)
(* whether its tenant was invalidated since.                               *)
(***************************************************************************)
\* @cached_with_ttl(300): lifetime of a tenant context, in seconds
ContextTtl == 300

\* self.insights_cache_ttl
InsightsTtl == 1800

\* the clock moves by half a context lifetime or by one insights lifetime
TickSeconds == ContextTtl \div 2

MaxClock == InsightsTtl + MaxTicks * TickSeconds

NoEntry == [cached |-> FALSE, stored_at |-> 0, stale |-> FALSE, is_error |-> FALSE]

Entry(t, stale, is_error) == [cached |-> TRUE, stored_at |-> t, stale |-> stale, is_error |-> is_error]

EmptyCache == [t \in Tenants |-> NoEntry]

Tick ==
    /\ pc = "idle"
    /\ \E d \in {TickSeconds, InsightsTtl} :
          /\ now + d <= MaxClock
          /\ now' = now + d
    /\ UNCHANGED <<pc, req, res, reads, schema_cache, context_cache, insights_cache>>
    /\ UNCHANGED <<threadVars, svcVars>>

\* the reads of schema_extractor.get_tenant_schema
SchemaReads(tenant_id) ==
    {Read(c, tenant_id) : c \in {"categories", "category_attributes", "sitemaps",
                                 "content_types", "topics", "custom_tags"}}

\* SmartQueryParser._get_cached_schema(tenant_id)
SmartQueryParser_get_cached_schema ==
    /\ pc = "idle"
    /\ \E t \in Tenants :
          /\ req' = [NoReq EXCEPT !.op = "get_cached_schema", !.tenant_id = t]
          /\ IF ~schema_cache[t].cached
             THEN /\ schema_cache' = [schema_cache EXCEPT ![t] = Entry(now, FALSE, FALSE)]
                  /\ res' = [NoRes EXCEPT !.status = "ok"]
                  /\ reads' = SchemaReads(t)
             ELSE /\ schema_cache' = schema_cache
                  /\ res' = [NoRes EXCEPT !.status = "ok", !.from_cache = TRUE,
                                          !.entry_age = now - schema_cache[t].stored_at]
                  /\ reads' = {}
    /\ pc' = "done"
    /\ UNCHANGED <<now, context_cache, insights_cache>>
    /\ UNCHANGED <<threadVars, svcVars>>

\* SmartQueryParser.clear_cache()
SmartQueryParser_clear_cache ==
    /\ pc = "idle"
    /\ req' = [NoReq EXCEPT !.op = "parser_clear_cache"]
    /\ res' = [NoRes EXCEPT !.status = "ok"]
    /\ schema_cache' = EmptyCache
    /\ reads' = {}
    /\ pc' = "done"
    /\ UNCHANGED <<now, context_cache, insights_cache>>
    /\ UNCHANGED <<threadVars, svcVars>>

\* a cached context whose age is below the lifetime (cached_with_ttl wrapper)
ContextHit(t) == context_cache[t].cached /\ (now - context_cache[t].stored_at) < ContextTtl

\* the context cache after get_tenant_context(t): a miss stores the result,
\* the {"error": ...} of a failed fetch included
ContextCacheAfter(t, failure) ==
    IF ContextHit(t) THEN context_cache
    ELSE [context_cache EXCEPT ![t] = Entry(now, FALSE, failure)]

\* the three distributions and the count of get_tenant_context
ContextReads(t) ==
    {Read("sitemaps", t), Read("category_attributes", "none"),
     Read("content_types", "none")}

\* QueryRouter.get_tenant_context(tenant_id)
GetTenantContext(t, failure) ==
    LET e == ContextCacheAfter(t, failure)[t]
    IN  [NoRes EXCEPT !.status = IF e.is_error THEN "error" ELSE "ok",
                      !.error = IF e.is_error THEN "Could not fetch context" ELSE "none",
                      !.from_cache = ContextHit(t),
                      !.entry_age = now - e.stored_at,
                      !.used_stale = e.stale]

QueryRouter_get_tenant_context ==
    /\ pc = "idle"
    /\ \E t \in Tenants, failure \in BOOLEAN :
          /\ ContextHit(t) => ~failure
          /\ req' = [NoReq EXCEPT !.op = "get_tenant_context", !.tenant_id = t,
                                  !.failure = IF failure THEN "find" ELSE "none"]
          /\ res' = GetTenantContext(t, failure)
          /\ context_cache' = ContextCacheAfter(t, failure)
          /\ reads' = IF ContextHit(t) THEN {} ELSE ContextReads(t)
    /\ pc' = "done"
    /\ UNCHANGED <<now, schema_cache, insights_cache>>
    /\ UNCHANGED <<threadVars, svcVars>>

\* cached insights younger than insights_cache_ttl
InsightsHit(t) == insights_cache[t].cached /\ (now - insights_cache[t].stored_at) < InsightsTtl

\* QueryRouter.get_or_generate_insights(tenant_id)
QueryRouter_get_or_generate_insights ==
    /\ pc = "idle"
    /\ \E t \in Tenants, failure \in BOOLEAN :
          /\ (InsightsHit(t) \/ ContextHit(t)) => ~failure
          /\ req' = [NoReq EXCEPT !.op = "get_or_generate_insights", !.tenant_id = t,
                                  !.failure = IF failure THEN "find" ELSE "none"]
          /\ IF InsightsHit(t)
             THEN /\ res' = [NoRes EXCEPT !.status = "ok", !.from_cache = TRUE,
                                          !.entry_age = now - insights_cache[t].stored_at,
                                          !.used_stale = insights_cache[t].stale]
                  /\ reads' = {}
                  /\ UNCHANGED <<context_cache, insights_cache>>
             ELSE LET context == GetTenantContext(t, failure)
                  IN  /\ context_cache' = ContextCacheAfter(t, failure)
                      /\ reads' = IF ContextHit(t) THEN {} ELSE ContextReads(t)
                      /\ IF context.status = "error"
                         THEN /\ res' = [NoRes EXCEPT !.status = "ok",
                                                      !.error = "Context unavailable"]
                              /\ insights_cache' = insights_cache
                         ELSE /\ res' = [NoRes EXCEPT !.status = "ok",
                                                      !.used_stale = context.used_stale]
                              /\ insights_cache' =
                                     [insights_cache EXCEPT
                                         ![t] = Entry(now, context.used_stale, FALSE)]
    /\ pc' = "done"
    /\ UNCHANGED <<now, schema_cache>>
    /\ UNCHANGED <<threadVars, svcVars>>

\* the entries of a tenant that survive an invalidation are from before it
MarkStale(cache, t) ==
    [cache EXCEPT ![t] = IF cache[t].cached THEN [cache[t] EXCEPT !.stale = TRUE]
                         ELSE cache[t]]

\* the context cache after clear_cache(tenant_id): cleared only when no
\* tenant is given
ClearContext(tenant_id) ==
    IF tenant_id = "None" THEN EmptyCache
    ELSE MarkStale(context_cache, tenant_id)

\* the insights cache after clear_cache(tenant_id)
ClearInsights(tenant_id) ==
    IF tenant_id # "None" /\ insights_cache[tenant_id].cached
    THEN [insights_cache EXCEPT ![tenant_id] = NoEntry]
    ELSE IF tenant_id = "None" THEN EmptyCache
    ELSE insights_cache

\* QueryRouter.clear_cache(tenant_id=None)
QueryRouter_clear_cache ==
    /\ pc = "idle"
    /\ \E tenant_id \in Tenants \cup {"None"} :
          /\ req' = [NoReq EXCEPT !.op = "router_clear_cache", !.tenant_id = tenant_id]
          /\ insights_cache' = ClearInsights(tenant_id)
          /\ context_cache' = ClearContext(tenant_id)
    /\ res' = [NoRes EXCEPT !.status = "ok"]
    /\ reads' = {}
    /\ pc' = "done"
    /\ UNCHANGED <<now, schema_cache>>
    /\ UNCHANGED <<threadVars, svcVars>>

(***************************************************************************)
(* cached_with_ttl under concurrent callers (agent_strucutre/try_app.py).  *)
(* A thread runs the wrapper one dictionary operation at a time; a cached  *)
(* value is represented by the time at which it was computed.              *)
(***************************************************************************)
\* two concurrent callers
Threads == {1, 2}

ThreadIdle == [pc |-> "idle", key |-> "A", now |-> 0, result |-> -1, from_cache |-> FALSE]

\* a dictionary without keys (-1 is an absent key)
EmptyDict == [k \in Tenants |-> -1]

\* key = ...; now = time.time()
Wrapper_call(t) ==
    /\ th[t].pc = "idle"
    /\ \E k \in Tenants :
          th' = [th EXCEPT ![t] = [ThreadIdle EXCEPT !.pc = "check_data", !.key = k,
                                                     !.now = now]]
    /\ UNCHANGED <<cache_data, cache_time>>

\* if key in func.cache_data and ...
Wrapper_check_data(t) ==
    /\ th[t].pc = "check_data"
    /\ th' = [th EXCEPT ![t].pc = IF cache_data[th[t].key] # -1 THEN "check_time"
                                  ELSE "compute"]
    /\ UNCHANGED <<cache_data, cache_time>>

\* ... and (now - func.cache_time[key]) < seconds: the subscript raises
\* KeyError when the key is not in cache_time
Wrapper_check_time(t) ==
    /\ th[t].pc = "check_time"
    /\ th' = [th EXCEPT ![t].pc =
                  IF cache_time[th[t].key] = -1 THEN "KeyError"
                  ELSE IF (th[t].now - cache_time[th[t].key]) < ContextTtl THEN "read"
                  ELSE "compute"]
    /\ UNCHANGED <<cache_data, cache_time>>

\* return func.cache_data[key]
Wrapper_read(t) ==
    /\ th[t].pc = "read"
    /\ th' = [th EXCEPT ![t].pc = "done", ![t].result = cache_data[th[t].key],
                        ![t].from_cache = TRUE]
    /\ UNCHANGED <<cache_data, cache_time>>

\* result = func(*args, **kwargs)
Wrapper_compute(t) ==
    /\ th[t].pc = "compute"
    /\ th' = [th EXCEPT ![t].pc = "store_data", ![t].result = now]
    /\ UNCHANGED <<cache_data, cache_time>>

\* func.cache_data[key] = result
Wrapper_store_data(t) ==
    /\ th[t].pc = "store_data"
    /\ cache_data' = [cache_data EXCEPT ![th[t].key] = th[t].result]
    /\ th' = [th EXCEPT ![t].pc = "store_time"]
    /\ UNCHANGED cache_time

\* func.cache_time[key] = now; return result
Wrapper_store_time(t) ==
    /\ th[t].pc = "store_time"
    /\ cache_time' = [cache_time EXCEPT ![th[t].key] = th[t].now]
    /\ th' = [th EXCEPT ![t].pc = "done"]
    /\ UNCHANGED cache_data

\* the caller takes the result (or the exception) and may call again
Wrapper_return(t) ==
    /\ th[t].pc \in {"done", "KeyError"}
    /\ th' = [th EXCEPT ![t] = ThreadIdle]
    /\ UNCHANGED <<cache_data, cache_time>>

(***************************************************************************)
(* database/connection.py under concurrent callers: the global             *)
(* _mongo_client is 0 for None, otherwise the number of the client.        *)
(***************************************************************************)
\* get_mongodb_client(): global _mongo_client
Conn_call(t) ==
    /\ th[t].pc = "idle"
    /\ th' = [th EXCEPT ![t] = [ThreadIdle EXCEPT !.pc = "conn_check"]]
    /\ UNCHANGED <<mongo_client, created>>

\* if _mongo_client is None:
Conn_check(t) ==
    /\ th[t].pc = "conn_check"
    /\ th' = [th EXCEPT ![t].pc = IF mongo_client = 0 THEN "conn_create" ELSE "conn_return"]
    /\ UNCHANGED <<mongo_client, created>>

\* _mongo_client = MongoClient(...), or the constructor raises and the
\* exception is raised again
Conn_create(t) ==
    /\ th[t].pc = "conn_create"
    /\ \E raises \in BOOLEAN :
          IF raises
          THEN /\ th' = [th EXCEPT ![t].pc = "conn_raised"]
               /\ UNCHANGED <<mongo_client, created>>
          ELSE /\ created' = created + 1
               /\ mongo_client' = created + 1
               /\ th' = [th EXCEPT ![t].pc = "conn_return"]

\* return _mongo_client
Conn_return(t) ==
    /\ th[t].pc = "conn_return"
    /\ th' = [th EXCEPT ![t].pc = "conn_done", ![t].result = mongo_client]
    /\ UNCHANGED <<mongo_client, created>>

\* close_connection(): if _mongo_client is not None:
Close_call(t) ==
    /\ th[t].pc = "idle"
    /\ th' = [th EXCEPT ![t] = [ThreadIdle EXCEPT !.pc = IF mongo_client # 0
                                                         THEN "close_close"
                                                         ELSE "close_done"]]
    /\ UNCHANGED <<mongo_client, created>>

\* _mongo_client.close(): an exception is logged
Close_close(t) ==
    /\ th[t].pc = "close_close"
    /\ th' = [th EXCEPT ![t].pc = "close_finally"]
    /\ UNCHANGED <<mongo_client, created>>

\* finally: _mongo_client = None
Close_finally(t) ==
    /\ th[t].pc = "close_finally"
    /\ mongo_client' = 0
    /\ created' = 0
    /\ th' = [th EXCEPT ![t].pc = "close_done"]

\* the caller takes the result (or the exception) and may call again
Conn_finish(t) ==
    /\ th[t].pc \in {"conn_done", "conn_raised", "close_done"}
    /\ th' = [th EXCEPT ![t] = ThreadIdle]
    /\ UNCHANGED <<mongo_client, created>>

\* time passes while the callers run: one context lifetime at a time
Wrapper_tick ==
    /\ now + ContextTtl <= MaxTicks * ContextTtl
    /\ now' = now + ContextTtl
    /\ UNCHANGED <<pc, req, res, reads, schema_cache, context_cache, insights_cache>>
    /\ UNCHANGED <<threadVars, svcVars>>

(***************************************************************************)
(* agent_strucutre/query_parser.py: SmartQueryParser._ai_parse             *)
(***************************************************************************)
\* max_retries
MaxRetries == 3

\* base_delay, in seconds
BaseDelay == 1

\* the large schema safeguard
LargeSchema == 5000

\* what one completion call can do: its tool arguments decode, they are
\* not JSON, or the call raises
AttemptOutcomes == {"ok", "json_error", "api_error"}

\* 2 ** attempt
RECURSIVE Pow2(_)
Pow2(n) == IF n = 0 THEN 1 ELSE 2 * Pow2(n - 1)

\* the event written for a completion call; a sleep is written as its delay
CallEvent == 0

\* _get_fallback_response(query_text)
FallbackResponse(query_text, events) ==
    [NoRes EXCEPT !.status = "ok", !.route = "semantic", !.operation_type = "semantic",
                  !.terms = <<query_text>>, !.events = events]

\* for attempt in range(max_retries): completion call, json.loads, the two
\* except clauses and the backoff
RECURSIVE Retry(_, _, _, _)
Retry(query_text, outcomes, attempt, events) ==
    IF attempt >= MaxRetries
    THEN FallbackResponse(query_text, events)
    ELSE LET called == Append(events, CallEvent)
         IN  IF outcomes[attempt + 1] = "ok"
             THEN [NoRes EXCEPT !.status = "ok", !.parsed_attempt = attempt + 1,
                                !.events = called]
             ELSE IF attempt = MaxRetries - 1
                  THEN FallbackResponse(query_text, called)
                  ELSE IF attempt < MaxRetries - 1
                       THEN Retry(query_text, outcomes, attempt + 1,
                                  Append(called, BaseDelay * Pow2(attempt)))
                       ELSE Retry(query_text, outcomes, attempt + 1, called)

\* a parse without the large schema safeguard
AiParseUnguarded(query_text, total_values, outcomes) == Retry(query_text, outcomes, 0, <<>>)
\* _ai_parse(query_text, schema_data)
AiParse(query_text, total_values, outcomes) ==
    IF total_values > LargeSchema
    THEN FallbackResponse(query_text, <<>>)
    ELSE Retry(query_text, outcomes, 0, <<>>)

SmartQueryParser_ai_parse ==
    /\ pc = "idle"
    /\ \E query_text \in {"q1", "q2"},
          total_values \in {0, LargeSchema, LargeSchema + 1},
          outcomes \in [1..MaxRetries -> AttemptOutcomes] :
          /\ req' = [NoReq EXCEPT !.op = "ai_parse", !.text = <<query_text>>,
                                  !.total_values = total_values, !.outcomes = outcomes]
          /\ res' = AiParse(query_text, total_values, outcomes)
    /\ pc' = "done"
    /\ UNCHANGED <<reads, cacheVars, threadVars, svcVars>>

(***************************************************************************)
(* controlflow_core/tasks.py: ControlFlowPipeline.process_query_sync       *)
(***************************************************************************)
\* what the run of an analysis or retrieval task can give: a result, an
\* empty result, a result whose text contains "error", or an exception
TaskOutcomes == {"ok", "empty", "error", "raises"}

\* what the synthesis task can give: a QueryResponse, anything else, or an
\* exception
SynthesisOutcomes == {"response", "other", "raises"}

\* the query types of the classifier
QueryTypes == {"SEARCH", "GENERAL_CHAT"}

\* query_type.lower()
LowerType(query_type) ==
    CASE query_type = "SEARCH" -> "search"
      [] query_type = "GENERAL_CHAT" -> "general_chat"
      [] OTHER -> query_type

\* the QueryResponse of an error handler
ErrorResponse(error_phase, phases) ==
    [NoRes EXCEPT !.status = "ok", !.response_type = "error",
                  !.error_phase = error_phase, !.phases = phases]

\* not result or "error" in str(result)
TaskFailed(outcome) == outcome \in {"empty", "error"}

\* a pipeline that runs the next phase whatever the last one returned
ProcessQueryUngated(query_type, analysis, retrieval, synthesis) ==
    IF "raises" \in {analysis, retrieval, synthesis}
    THEN ErrorResponse("pipeline", <<"analysis", "retrieval", "synthesis">>)
    ELSE [NoRes EXCEPT !.status = "ok", !.response_type = LowerType(query_type),
                       !.phases = <<"analysis", "retrieval", "synthesis">>]
\* process_query_sync(query_context): phases holds the tasks that were run
ProcessQuerySync(query_type, analysis, retrieval, synthesis) ==
    IF analysis = "raises"
    THEN ErrorResponse("pipeline", <<"analysis">>)
    ELSE IF TaskFailed(analysis)
    THEN ErrorResponse("analysis", <<"analysis">>)
    ELSE IF retrieval = "raises"
    THEN ErrorResponse("pipeline", <<"analysis", "retrieval">>)
    ELSE IF TaskFailed(retrieval)
    THEN ErrorResponse("retrieval", <<"analysis", "retrieval">>)
    ELSE IF synthesis = "raises"
    THEN ErrorResponse("pipeline", <<"analysis", "retrieval", "synthesis">>)
    ELSE [NoRes EXCEPT !.status = "ok",
                       !.response_type = IF synthesis = "response" THEN "synthesized"
                                         ELSE LowerType(query_type),
                       !.phases = <<"analysis", "retrieval", "synthesis">>]

ControlFlowPipeline_process_query_sync ==
    /\ pc = "idle"
    /\ \E query_type \in QueryTypes, analysis \in TaskOutcomes,
          retrieval \in TaskOutcomes, synthesis \in SynthesisOutcomes :
          /\ req' = [NoReq EXCEPT !.op = "pipeline", !.query_type = query_type,
                                  !.outcomes = <<analysis, retrieval, synthesis>>]
          /\ res' = ProcessQuerySync(query_type, analysis, retrieval, synthesis)
    /\ pc' = "done"
    /\ UNCHANGED <<reads, cacheVars, threadVars, svcVars>>

\* services/chatbot_service.py: self.sessions, keyed by session id
\* (no operation on one session reads or writes another, so one is followed)
SessionIds == {"s1"}

NoSession == [exists |-> FALSE, query_count |-> 0, history_len |-> 0]

NoSessions == [sid \in SessionIds |-> NoSession]

\* the basic rate limit of a session
RateLimit == 100

\* what process_user_query can give: an exception (raised while the query
\* context or the pipeline is built), a QueryResponse whose query_info is
\* None, or one whose query_info is a mapping
PipelineOutcomes == {"raises", "no_query_info", "with_query_info"}

\* the failure dictionary of the except branch
ServiceFailure(error, forwarded) ==
    [NoRes EXCEPT !.status = "error", !.error = error, !.forwarded = forwarded]

ServiceSuccess == [NoRes EXCEPT !.status = "ok", !.forwarded = TRUE]

\* get_session / create_session, then session.query_count += 1
Counted(ss, sid) ==
    [ss EXCEPT ![sid] = [exists |-> TRUE, query_count |-> @.query_count + 1,
                         history_len |-> @.history_len]]

\* session.conversation_history.append(...)
Appended(ss, sid) == [ss EXCEPT ![sid].history_len = @ + 1]

\* getattr(response, "query_info", {}).get("query_type") raises when the
\* attribute is None
MetadataRaises(response, include_metadata) ==
    include_metadata /\ response = "no_query_info"

\* process_message(user_message, session_id, include_metadata): the
\* sessions afterwards and the dictionary returned
ProcessMessage(ss, sid, tenant_ok, response, include_metadata) ==
    IF ~tenant_ok
    THEN [sessions |-> ss, result |-> ServiceFailure("Invalid tenant access", FALSE)]
    ELSE LET counted == Counted(ss, sid)
         IN  IF counted[sid].query_count > RateLimit
             THEN [sessions |-> Appended(counted, sid),
                   result |-> ServiceFailure("Query limit exceeded", FALSE)]
             ELSE IF response = "raises"
             THEN [sessions |-> Appended(counted, sid),
                   result |-> ServiceFailure("exception", TRUE)]
             ELSE IF MetadataRaises(response, include_metadata)
             THEN [sessions |-> Appended(Appended(counted, sid), sid),
                   result |-> ServiceFailure("exception", TRUE)]
             ELSE [sessions |-> Appended(counted, sid), result |-> ServiceSuccess]

\* process_message_async(user_message, session_id, include_metadata)
ProcessMessageAsync(ss, sid, tenant_ok, response, include_metadata) ==
    IF ~tenant_ok
    THEN [sessions |-> ss, result |-> ServiceFailure("Invalid tenant access", FALSE)]
    ELSE LET counted == Counted(ss, sid)
         IN  IF response = "raises"
             THEN [sessions |-> counted, result |-> ServiceFailure("exception", TRUE)]
             ELSE IF MetadataRaises(response, include_metadata)
             THEN [sessions |-> Appended(counted, sid),
                   result |-> ServiceFailure("exception", TRUE)]
             ELSE [sessions |-> Appended(counted, sid), result |-> ServiceSuccess]

\* the counters of the model stay within its bounds
WithinBounds(ss) ==
    \A sid \in SessionIds :
        /\ ss[sid].query_count <= RateLimit + MaxOver
        /\ ss[sid].history_len - ss[sid].query_count <= MaxDrift
        /\ ss[sid].query_count - ss[sid].history_len <= MaxDrift

ChatbotService_process_message ==
    /\ pc = "idle"
    /\ \E sid \in SessionIds, tenant_ok \in BOOLEAN,
          response \in PipelineOutcomes, include_metadata \in BOOLEAN :
          LET out == ProcessMessage(sessions, sid, tenant_ok, response, include_metadata)
          IN  /\ WithinBounds(out.sessions)
              /\ req' = [NoReq EXCEPT !.op = "process_message", !.session_id = sid,
                                      !.tenant_ok = tenant_ok, !.response = response,
                                      !.include_metadata = include_metadata]
              /\ res' = out.result
              /\ sessions' = out.sessions
    /\ pc' = "done"
    /\ UNCHANGED <<reads, cacheVars, threadVars, mongo_client, created>>

ChatbotService_process_message_async ==
    /\ pc = "idle"
    /\ \E sid \in SessionIds, tenant_ok \in BOOLEAN,
          response \in PipelineOutcomes, include_metadata \in BOOLEAN :
          LET out == ProcessMessageAsync(sessions, sid, tenant_ok, response, include_metadata)
          IN  /\ WithinBounds(out.sessions)
              /\ req' = [NoReq EXCEPT !.op = "process_message_async", !.session_id = sid,
                                      !.tenant_ok = tenant_ok, !.response = response,
                                      !.include_metadata = include_metadata]
              /\ res' = out.result
              /\ sessions' = out.sessions
    /\ pc' = "done"
    /\ UNCHANGED <<reads, cacheVars, threadVars, mongo_client, created>>

Return ==
    /\ pc = "done"
    /\ pc' = "idle"
    /\ req' = NoReq
    /\ res' = NoRes
    /\ reads' = {}
    /\ UNCHANGED <<cacheVars, threadVars, svcVars>>

Init ==
    /\ pc = "idle"
    /\ req = NoReq
    /\ res = NoRes
    /\ reads = {}
    /\ now = 0
    /\ schema_cache = EmptyCache
    /\ context_cache = EmptyCache
    /\ insights_cache = EmptyCache
    /\ th = [t \in Threads |-> ThreadIdle]
    /\ cache_data = EmptyDict
    /\ cache_time = EmptyDict
    /\ mongo_client = 0
    /\ created = 0
    /\ sessions = NoSessions

Next ==
    \/ Executor_fetch_content_by_filters
    \/ Executor_fetch_content_by_semantic_search
    \/ Executor_fetch_content_by_distribution
    \/ queries_fetch_content_by_filters
    \/ queries_fetch_content_count
    \/ queries_fetch_content_with_complex_filters
    \/ queries_fetch_distribution_analysis
    \/ MongoQueryBuilder_list_query
    \/ MongoQueryBuilder_execute_query
    \/ SimplifiedSchemaExtractor_extract_tenant_schema
    \/ DynamicTenantSchemaExtractor_extract_schema
    \/ validate_category_values
    \/ AnalyticsEngine_analyze_distribution
    \/ sanitize_input
    \/ SmartQueryParser_ai_parse
    \/ ControlFlowPipeline_process_query_sync
    \/ Return

Spec == Init /\ [][Next]_vars

\* the natural-language path: parser, router and executor
NextRouter ==
    \/ QueryRouter_parse_failed
    \/ QueryRouter_execute_query
    \/ Return

SpecRouter == Init /\ [][NextRouter]_vars

\* the parser's schema cache over time
NextParserCache ==
    \/ SmartQueryParser_get_cached_schema
    \/ SmartQueryParser_clear_cache
    \/ Tick
    \/ Return

SpecParserCache == Init /\ [][NextParserCache]_vars

\* the router's context and insights caches over time
NextRouterCache ==
    \/ QueryRouter_get_tenant_context
    \/ QueryRouter_get_or_generate_insights
    \/ QueryRouter_clear_cache
    \/ Tick
    \/ Return

SpecRouterCache == Init /\ [][NextRouterCache]_vars

\* concurrent callers of a function decorated with cached_with_ttl
NextWrapper ==
    \/ \E t \in Threads : Wrapper_call(t) /\ UNCHANGED <<pc, req, res, reads, cacheVars, svcVars>>
    \/ \E t \in Threads : Wrapper_check_data(t) /\ UNCHANGED <<pc, req, res, reads, cacheVars, svcVars>>
    \/ \E t \in Threads : Wrapper_check_time(t) /\ UNCHANGED <<pc, req, res, reads, cacheVars, svcVars>>
    \/ \E t \in Threads : Wrapper_read(t) /\ UNCHANGED <<pc, req, res, reads, cacheVars, svcVars>>
    \/ \E t \in Threads : Wrapper_compute(t) /\ UNCHANGED <<pc, req, res, reads, cacheVars, svcVars>>
    \/ \E t \in Threads : Wrapper_store_data(t) /\ UNCHANGED <<pc, req, res, reads, cacheVars, svcVars>>
    \/ \E t \in Threads : Wrapper_store_time(t) /\ UNCHANGED <<pc, req, res, reads, cacheVars, svcVars>>
    \/ \E t \in Threads : Wrapper_return(t) /\ UNCHANGED <<pc, req, res, reads, cacheVars, svcVars>>
    \/ Wrapper_tick

SpecWrapper == Init /\ [][NextWrapper]_vars

\* what a step of a connection caller leaves alone
ConnFrame == UNCHANGED <<pc, req, res, reads, cacheVars, cache_data, cache_time, sessions>>

\* concurrent callers of get_mongodb_client and close_connection
NextConnection ==
    \/ \E t \in Threads : Conn_call(t) /\ ConnFrame
    \/ \E t \in Threads : Conn_check(t) /\ ConnFrame
    \/ \E t \in Threads : Conn_create(t) /\ ConnFrame
    \/ \E t \in Threads : Conn_return(t) /\ ConnFrame
    \/ \E t \in Threads : Close_call(t) /\ ConnFrame
    \/ \E t \in Threads : Close_close(t) /\ ConnFrame
    \/ \E t \in Threads : Close_finally(t) /\ ConnFrame
    \/ \E t \in Threads : Conn_finish(t) /\ ConnFrame

SpecConnection == Init /\ [][NextConnection]_vars

\* the chatbot service and its sessions
NextService ==
    \/ ChatbotService_process_message
    \/ ChatbotService_process_message_async
    \/ Return

SpecService == Init /\ [][NextService]_vars

(***************************************************************************)
(* What the stored data says: the values a record carries for a category   *)
(* and the identifiers a tenant's values stand for.                        *)
(***************************************************************************)
TenantRecords(tenant) == {d \in sitemaps : d.tenant = tenant}

NamesOf(collection, ids) == {x.name : x \in {y \in Collection(collection) : y.id \in ids}}

RecordValues(d, category) ==
    CASE category = "Language" -> d.geoFocus
      [] category \in {"Topics", "Topic"} -> NamesOf("topics", d.topic)
      [] category = "Content Type" -> NamesOf("content_types", d.contentType)
      [] category = "Custom Tags" -> NamesOf("custom_tags", d.tag)
      [] OTHER ->
             {a.name : a \in {x \in category_attributes :
                                 /\ x.id \in d.categoryAttribute
                                 /\ x.category = get_category_id(d.tenant, category)}}

IsJoined(category) == category # "Language"

TenantIds(tenant, category, values) ==
    CASE category \in {"Topics", "Topic"} ->
             {x.id : x \in {y \in topics : y.tenant = tenant /\ y.name \in values}}
      [] category = "Content Type" ->
             {x.id : x \in {y \in content_types : y.tenant = tenant /\ y.name \in values}}
      [] category = "Custom Tags" ->
             {x.id : x \in {y \in custom_tags : y.tenant = tenant /\ y.name \in values}}
      [] OTHER ->
             {x.id : x \in {y \in category_attributes :
                               /\ y.tenant = tenant /\ y.name \in values
                               /\ y.category = get_category_id(tenant, category)}}

\* the category names of either schema the repository builds for a tenant
SchemaCategories(tenant) ==
    {p[1] : p \in CategoricalFieldsOf(tenant)} \cup StaticCategories

ListOps == {"exec_filters", "db_filters", "db_complex", "wf_list"}

CountOps == {"exec_filters", "db_count", "db_complex"}

\* the request carries nothing but its category filters, on the first page
OnlyCategories ==
    /\ req.date_filter = NoDate /\ req.marketing_filter = "none"
    /\ req.search_terms = {}
    /\ req.op = "exec_filters" => req.page = 1 /\ req.page_size = DefaultPageSize
    /\ req.op \in {"db_filters", "db_complex"} =>
           req.page = 0 /\ req.page_size = DefaultLimit

(***************************************************************************)
(* Tenant scope.                                                           *)
(***************************************************************************)
\* C1: every read issued while serving a request for tenant T, against the
\* primary collection or a reference collection, restricts the tenant
\* field to T.
C1_EveryReadTenantScoped == \A r \in reads : r.tenant = req.tenant_id

C3_SchemaOfTenantOnly ==
    (pc = "done" /\ req.op \in {"simplified_schema", "static_schema"})
    => /\ res.categories \subseteq CategoricalFieldsOf(req.tenant_id)
       /\ \A m \in res.mappings :
              m[2] # 0 => \E c \in categories :
                              c.id = m[2] /\ c.tenant = req.tenant_id

\* C4: the identifiers a category-attribute filter is compiled to all lie
\* under the parent category of a category the filter names.
C4_LookupRestrictedToParent ==
    (pc = "done" /\ req.op \in ListOps \cup CountOps)
    => \A id \in res.match_query.categoryAttribute.ids :
           \E i \in 1..Len(req.filters), a \in category_attributes :
               /\ a.id = id
               /\ get_category_id(req.tenant_id, req.filters[i].cat) # 0
               /\ a.category = get_category_id(req.tenant_id, req.filters[i].cat)

(***************************************************************************)
(* Filter semantics.                                                       *)
(***************************************************************************)
\* C5: when the values given for a filtered category stand for none of the
\* tenant's identifiers, the query succeeds with no record and count 0.
C5_NothingResolvedMatchesNothing ==
    (/\ pc = "done" /\ req.op \in {"exec_filters", "db_filters", "db_count", "db_complex"}
     /\ ~req.is_negation
     /\ \E i \in 1..Len(req.filters) :
            /\ req.filters[i].cat \in SchemaCategories(req.tenant_id)
            /\ IsJoined(req.filters[i].cat)
            /\ req.filters[i].include # {}
            /\ TenantIds(req.tenant_id, req.filters[i].cat, req.filters[i].include) = {})
    => res.status = "ok" /\ res.data = <<>> /\ res.total_count = 0

\* C6: a filter naming one category with included values returns exactly
\* the tenant's records that carry at least one of the values.
C6_IncludeIsAnyOf ==
    (/\ pc = "done" /\ req.op \in {"exec_filters", "db_filters", "db_count", "db_complex"}
     /\ ~req.is_negation /\ OnlyCategories
     /\ Len(req.filters) = 1 /\ req.filters[1].include # {}
     /\ req.filters[1].cat \in SchemaCategories(req.tenant_id))
    => LET expected == {d.id : d \in {x \in TenantRecords(req.tenant_id) :
                                         RecordValues(x, req.filters[1].cat)
                                             \cap req.filters[1].include # {}}}
       IN  /\ res.status = "ok"
           /\ req.op \in ListOps => Range(res.data) = expected
           /\ req.op \in CountOps => res.total_count = Cardinality(expected)

\* C7: when a filter names several categories, every returned record
\* carries an included value of every one of them.
C7_CategoriesCombineWithAnd ==
    (/\ pc = "done" /\ res.status = "ok" /\ req.op \in ListOps
     /\ ~req.is_negation
     /\ Len(req.filters) >= 2
     /\ \A i \in 1..Len(req.filters) :
            /\ req.filters[i].include # {}
            /\ req.filters[i].cat \in SchemaCategories(req.tenant_id))
    => \A id \in Range(res.data), i \in 1..Len(req.filters) :
           RecordValues(Doc(id), req.filters[i].cat) \cap req.filters[i].include # {}

\* C8: a filter naming one category with excluded values returns exactly
\* the tenant's records none of whose values is excluded, those without a
\* value included.
C8_ExcludeIsNoneOf ==
    (/\ pc = "done" /\ req.op = "exec_filters"
     /\ req.is_negation /\ OnlyCategories
     /\ Len(req.filters) = 1 /\ req.filters[1].include # {}
     /\ req.filters[1].cat \in SchemaCategories(req.tenant_id))
    => LET expected == {d.id : d \in {x \in TenantRecords(req.tenant_id) :
                                         RecordValues(x, req.filters[1].cat)
                                             \cap req.filters[1].include = {}}}
       IN  /\ res.status = "ok"
           /\ Range(res.data) = expected
           /\ res.total_count = Cardinality(expected)

\* C9: when a category of a list request carries both included and
\* excluded values the request is answered with exclude winning: it is not
\* an error, and no returned record carries an excluded value.
C9_ExcludeWins ==
    (/\ pc = "done" /\ req.op = "router" /\ req.operation = "list"
     /\ \E i \in 1..Len(req.filters) :
            req.filters[i].include # {} /\ req.filters[i].exclude # {})
    => /\ res.status = "ok"
       /\ \A id \in Range(res.data), i \in 1..Len(req.filters) :
              RecordValues(Doc(id), req.filters[i].cat) \cap req.filters[i].exclude = {}

\* C10: a request whose filter names a category that is in no schema of
\* the tenant ends in an UnknownCategory error listing the valid categories.
C10_UnknownCategoryRejected ==
    (/\ pc = "done"
     /\ req.op \in {"exec_filters", "exec_search", "exec_distribution",
                     "db_filters", "db_count", "db_complex", "validate"}
     /\ \E i \in 1..Len(req.filters) :
            /\ req.filters[i].cat \notin SchemaCategories(req.tenant_id)
            /\ req.filters[i].include # {})
    => /\ res.error = "UnknownCategory"
       /\ res.available # {}
       /\ res.available \subseteq SchemaCategories(req.tenant_id)

(***************************************************************************)
(* Pagination.                                                             *)
(***************************************************************************)
Min(a, b) == IF a <= b THEN a ELSE b

\* the requested page lies in 1.. and the page size is at least 1
ValidPaging == req.page >= 1 /\ req.page_size >= 1

\* C11: for page >= 1 and page size p >= 1 with N records matching, the
\* list returns total_count = N, total_pages = ceil(N / p), has_next iff
\* page < total_pages, has_prev iff page > 1, and exactly
\* min(p, max(0, N - (page - 1) * p)) records.
C11_PaginationArithmetic ==
    (pc = "done" /\ req.op = "exec_filters" /\ res.status = "ok" /\ ValidPaging)
    => LET N == Cardinality(MatchedIds(res.match_query))
           p == req.page_size
           rest == N - (req.page - 1) * p
       IN  /\ res.total_count = N
           /\ res.total_pages * p >= N
           /\ (res.total_pages - 1) * p < N
           /\ res.total_pages >= 0
           /\ res.has_next = (req.page < res.total_pages)
           /\ res.has_prev = (req.page > 1)
           /\ Len(res.data) = Min(p, IF rest > 0 THEN rest ELSE 0)

\* the second of two pages holds the single record the first left over
C11_Witness ==
    /\ pc = "done" /\ req.op = "exec_filters" /\ res.status = "ok"
    /\ req.page = 2 /\ req.page_size = 3
    /\ res.total_count = 4 /\ res.total_pages = 2 /\ Len(res.data) = 1
    /\ res.has_prev /\ ~res.has_next

\* the records of pages 1..k of a request, in order
RECURSIVE PagesConcat(_, _)
PagesConcat(r, k) ==
    IF k <= 0 THEN <<>>
    ELSE PagesConcat(r, k - 1) \o
         ExecFetchContentByFilters(r.tenant_id, r.filters, r.date_filter,
                                   r.marketing_filter, r.is_negation, k,
                                   r.page_size).data

C13_LimitBounded ==
    (pc = "done" /\ res.executed
        /\ req.op \in {"exec_filters", "exec_search", "wf_list", "db_filters", "db_complex"})
    => res.limit_stage \in 1..200 /\ res.skip_stage >= 0

(***************************************************************************)
(* Search and distribution.                                                *)
(***************************************************************************)
\* C14: a search with free-text terms and category filters returns at most
\* 50 records, each of which matches a term case-insensitively in name,
\* description or summary and carries an included value of every filtered
\* category.
C14_SearchAndsTextWithCategories ==
    (/\ pc = "done" /\ res.status = "ok" /\ req.op \in {"exec_search", "wf_list"}
     /\ req.search_terms # {}
     /\ \A i \in 1..Len(req.filters) :
            /\ req.filters[i].include # {}
            /\ req.filters[i].cat \in SchemaCategories(req.tenant_id))
    => /\ Len(res.data) <= 50
       /\ \A id \in Range(res.data) :
              /\ TextMatches(Doc(id), req.search_terms)
              /\ \A i \in 1..Len(req.filters) :
                     RecordValues(Doc(id), req.filters[i].cat)
                         \cap req.filters[i].include # {}

\* C15: a distribution over a category returns one bucket per distinct
\* value of the category among the tenant's records that satisfy the
\* additional filters, counted by the records carrying the value,
\* restricted case-insensitively to the supplied values when there are
\* any, and ordered by non-increasing count.
C15_DistributionBuckets ==
    (/\ pc = "done" /\ req.op \in {"exec_distribution", "db_distribution"}
     /\ \A i \in 1..Len(req.filters) :
            /\ req.filters[i].cat \in SchemaCategories(req.tenant_id)
            /\ i > 1 => req.filters[i].include # {})
    => LET main == req.filters[1]
           R == {d \in TenantRecords(req.tenant_id) :
                    \A i \in 2..Len(req.filters) :
                        RecordValues(d, req.filters[i].cat)
                            \cap req.filters[i].include # {}}
           vals == UNION {RecordValues(d, main.cat) : d \in R}
           wanted == IF main.include = {} THEN vals
                     ELSE {v \in vals : LowerName(v) \in {LowerName(x) : x \in main.include}}
           expected == {[value |-> v,
                         count |-> Cardinality({d \in R : v \in RecordValues(d, main.cat)})] :
                           v \in wanted}
       IN  /\ res.status = "ok"
           /\ Range(res.buckets) = expected
           /\ Len(res.buckets) = Cardinality(expected)
           /\ \A i, j \in 1..Len(res.buckets) :
                  i < j => res.buckets[i].count >= res.buckets[j].count

AbsDiff(a, b) == IF a >= b THEN a - b ELSE b - a

\* C16: each bucket's percentage is count / (sum of all counts) * 100
\* rounded to two decimals (the nearest hundredth of a percent); with a
\* zero total every percentage is 0 and the call does not fail with a
\* division by zero; with a positive total the percentages sum to 100
\* within the rounding error of the buckets.
C16_PercentageOfTotal ==
    (pc = "done" /\ req.op = "analyze_distribution" /\ res.status = "ok")
    => LET d == res.distribution
           total == SumSeq([i \in 1..Len(d) |-> d[i].value])
           sum == SumSeq([i \in 1..Len(d) |-> d[i].percentage])
       IN  /\ res.total_value = total
           /\ \A i \in 1..Len(d) :
                  IF total = 0 THEN d[i].percentage = 0
                  ELSE 2 * AbsDiff(d[i].percentage * total, d[i].value * 10000) <= total
           /\ total > 0 => 2 * AbsDiff(sum, 10000) <= Len(d)

\* three buckets of one document each: 33.33 percent each, 99.99 in all
C16_Witness ==
    /\ pc = "done" /\ req.op = "analyze_distribution" /\ res.status = "ok"
    /\ Len(res.distribution) = 3
    /\ \A i \in 1..3 : res.distribution[i].percentage = 3333

(***************************************************************************)
(* Execution guards and failures.                                          *)
(***************************************************************************)
\* C17: a query specification whose first stage (or filter) does not
\* restrict by tenant is refused by the execution engine: it is never
\* executed and the store is not contacted.
C17_UnscopedSpecRefused ==
    (pc = "done" /\ req.op = "wf_execute" /\ req.spec_tenant = "any")
    => /\ res.status = "error"
       /\ ~res.executed
       /\ reads = {}

\* the value-to-id lookups a filtered call makes
ResolutionNeeded ==
    \E i \in 1..Len(req.filters) :
        /\ HasMapping(req.filters[i].cat)
        /\ StaticMapping(req.filters[i].cat).requires_join
        /\ req.filters[i].include # {}

\* C18: when the identifier resolution or a store round trip fails during
\* a filtered fetch, count or search, the operation ends in an error
\* reported to the caller, never in a result computed without the failed
\* stage's predicate.
C18_FailureAbortsOperation ==
    (/\ pc = "done" /\ req.op \in {"db_filters", "db_count", "db_complex"}
     /\ \/ req.failure = "find"
        \/ req.failure = "resolve" /\ ResolutionNeeded)
    => res.status = "error"

(***************************************************************************)
(* Caches.                                                                 *)
(***************************************************************************)
\* C19: a cached tenant schema expires after a fixed lifetime: no access
\* made more than the lifetime after the entry was stored is served from
\* that entry (five minutes, the lifetime the specification names and the
\* router's context cache uses).
C19_SchemaExpires ==
    (pc = "done" /\ req.op = "get_cached_schema" /\ res.from_cache)
    => res.entry_age <= ContextTtl

\* C20: after clear_cache(T) no request for T's tenant context or insights
\* is served from an entry stored before the invalidation, and
\* clear_cache(T) leaves the entries of every other tenant unchanged.
C20_InvalidationRecomputes ==
    [][/\ (pc' = "done" /\ req'.op \in {"get_tenant_context", "get_or_generate_insights"})
           => ~res'.used_stale
       /\ (pc' = "done" /\ req'.op = "router_clear_cache" /\ req'.tenant_id \in Tenants)
           => \A u \in Tenants \ {req'.tenant_id} :
                  /\ context_cache'[u] = context_cache[u]
                  /\ insights_cache'[u] = insights_cache[u]]_vars

\* C21: under every interleaving of concurrent cached calls no call fails
\* (no reader finds a value without its timestamp), and a call that is
\* served from the cache returns a value computed less than the lifetime
\* before the call.
C21_CacheSafeUnderConcurrency ==
    \A t \in Threads :
        /\ th[t].pc # "KeyError"
        /\ (th[t].pc = "done" /\ th[t].from_cache)
               => (th[t].now - th[t].result) < ContextTtl

(***************************************************************************)
(* Input sanitisation, connections, parsing and the chatbot service.       *)
(***************************************************************************)
\* C22: the output of sanitize_input holds no semicolon and no "$" that is
\* immediately followed by a letter, digit or underscore; for an input
\* that is not a string the output is the empty string.
C22_SanitizedHasNoOperator ==
    (pc = "done" /\ req.op = "sanitize_input")
    => /\ \A i \in 1..Len(res.text) : res.text[i] # ";"
       /\ \A i \in 1..(Len(res.text) - 1) :
              ~(res.text[i] = "$" /\ IsWordChar(res.text[i + 1]))
       /\ ~req.is_string => res.text = <<>>

\* the completion calls made
Calls(events) == Cardinality({i \in 1..Len(events) : events[i] = CallEvent})

ExecutorRaised ==
    CASE req.operation = "list" ->
             ExecFetchContentByFilters(req.tenant_id, req.filters, req.date_filter,
                                       req.marketing_filter, req.is_negation,
                                       1, DefaultPageSize).status = "error"
      [] req.operation = "distribution" /\ Len(req.filters) > 0 ->
             ExecDistribution(req.tenant_id, req.filters[1], Tail(req.filters)).status = "error"
      [] req.operation = "semantic" ->
             ExecSemanticSearch(req.tenant_id, req.search_terms, req.filters).status = "error"
      [] OTHER -> FALSE

\* C25: execute_query always returns a QueryResponse; it has success =
\* False and a non-empty error message exactly when parsing raised, the
\* executor raised, the operation is unknown or a distribution names no
\* category; a pure_advisory request succeeds without calling the executor.
C25_RouterNeverRaises ==
    (pc = "done" /\ req.op \in {"router", "router_parse_failed"}) =>
        /\ res.status \in {"ok", "error"}
        /\ res.status = "error" <=>
               \/ req.op = "router_parse_failed"
               \/ ExecutorRaised
               \/ req.operation \notin {"pure_advisory", "list", "distribution", "semantic"}
               \/ req.operation = "distribution" /\ Len(req.filters) = 0
        /\ res.status = "error" => res.error # "none"
        /\ res.status = "ok" => res.error = "none"
        /\ (req.op = "router" /\ req.operation = "pure_advisory") =>
               /\ res.status = "ok"
               /\ ~res.executed
               /\ reads = {}

C25_Witness ==
    /\ pc = "done"
    /\ req.op = "router"
    /\ req.operation = "semantic"
    /\ ExecutorRaised
    /\ res.status = "error"
    /\ res.operation_type = "semantic"

PhaseNames == <<"analysis", "retrieval", "synthesis">>

\* the phases of the request that fail or raise
FailingPhases == {i \in 1..3 : req.outcomes[i] \in {"empty", "error", "raises"}}

\* the first of them
FirstFailing == CHOOSE i \in FailingPhases : \A j \in FailingPhases : i <= j

\* the phases run are analysis, retrieval, synthesis in this order, each
\* only after the one before returned a result that is not empty and not
\* flagged as an error, and a QueryResponse is returned
PhasesInOrder ==
    /\ res.status = "ok"
    /\ res.response_type # "none"
    /\ Len(res.phases) \in 1..3
    /\ res.phases = SubSeq(PhaseNames, 1, Len(res.phases))
    /\ \A i \in 2..Len(res.phases) : req.outcomes[i - 1] = "ok"
    /\ FailingPhases = {} => Len(res.phases) = 3
    /\ FailingPhases # {} => Len(res.phases) = FirstFailing /\ res.response_type = "error"

\* C26 as stated: process_query_sync runs analysis, retrieval, synthesis in
\* order, each only after the one before succeeded; when a phase fails or
\* raises no later phase runs and the returned error response names that
\* phase; every call returns a QueryResponse.
C26_ErrorNamesPhase ==
    (pc = "done" /\ req.op = "pipeline") =>
        /\ PhasesInOrder
        /\ FailingPhases # {} => res.error_phase = PhaseNames[FirstFailing]

\* C26 amended: as above, but the error response names the phase only when
\* analysis or retrieval returned an empty or error-flagged result; when a
\* phase raises, the error response names "pipeline".
C26_ErrorNamesPhaseOrPipeline ==
    (pc = "done" /\ req.op = "pipeline") =>
        /\ PhasesInOrder
        /\ FailingPhases # {} =>
               res.error_phase = IF req.outcomes[FirstFailing] = "raises"
                                 THEN "pipeline"
                                 ELSE PhaseNames[FirstFailing]

C26_Witness ==
    /\ pc = "done"
    /\ req.op = "pipeline"
    /\ req.outcomes[1] = "ok"
    /\ req.outcomes[2] = "raises"
    /\ res.phases = <<"analysis", "retrieval">>
    /\ res.response_type = "error"
    /\ res.error_phase = "pipeline"

ServiceCall == req.op \in {"process_message", "process_message_async"}

\* C27: once a session's query_count exceeds 100 the message is not
\* forwarded to the pipeline and is rejected with "Query limit exceeded",
\* through process_message and through process_message_async alike (so at
\* most 100 messages of a session are ever forwarded).
C27_RateLimit ==
    (/\ pc = "done" /\ ServiceCall /\ req.tenant_ok
     /\ sessions[req.session_id].query_count > 100)
    => /\ ~res.forwarded
       /\ res.status = "error"
       /\ res.error = "Query limit exceeded"

\* C30: after every call each session's conversation_history holds one
\* entry per counted query, and a call refused for invalid tenant access
\* creates no session and changes no session's state.
C30_HistoryMatchesCount ==
    [][(pc = "idle" /\ pc' = "done" /\ req'.op \in {"process_message", "process_message_async"})
         => /\ \A sid \in SessionIds :
                   sessions'[sid].history_len = sessions'[sid].query_count
            /\ ~req'.tenant_ok => sessions' = sessions]_vars

\* the sum of the value field over the documents of a group
GroupSum(data, g) ==
    SumSeq([i \in 1..Len(data) |->
               IF data[i].grp = g /\ data[i].count # -1 THEN data[i].count ELSE 0])

\* C28: analyze_distribution with a value field, on data with at least one
\* non-null group value, returns a distribution and not an error: one
\* entry per group holding the sum of the value field over the group's
\* documents, ordered by non-increasing value.
C28_ValueDistribution ==
    (/\ pc = "done" /\ req.op = "analyze_distribution"
     /\ req.value_field # "none"
     /\ ExtractFieldValues(req.data) # <<>>)
    => LET d == res.distribution
           summed == {req.data[i].grp : i \in {j \in 1..Len(req.data) :
                                                  /\ req.data[j].grp # NullValue
                                                  /\ req.data[j].count # -1}}
       IN  /\ res.status = "ok"
           /\ {d[i].category : i \in 1..Len(d)} = summed
           /\ \A i \in 1..Len(d) : d[i].value = GroupSum(req.data, d[i].category)
           /\ \A i \in 1..(Len(d) - 1) : d[i].value >= d[i + 1].value

\* C29: for list, semantic and distribution operations the value the
\* router hands to the executor for each category is the list of the
\* category's included values, never the {include, exclude} mapping of the
\* parser, so a distribution restricted to included values V returns
\* exactly the buckets whose value matches V case-insensitively.
C29_RouterHandsLists ==
    (/\ pc = "done" /\ req.op = "router"
     /\ req.operation \in {"list", "semantic", "distribution"})
    => /\ \A i \in 1..Len(req.filters) :
              /\ RouterFilters(req.filters)[i].kind = "list"
              /\ RouterFilters(req.filters)[i].include = req.filters[i].include
       /\ (/\ req.operation = "distribution"
           /\ Len(req.filters) = 1
           /\ req.filters[1].include # {}
           /\ req.filters[1].cat \in SchemaCategories(req.tenant_id))
          => LET all == DistGroups({d.id : d \in TenantRecords(req.tenant_id)},
                                   req.filters[1].cat)
                 wanted == {b \in all :
                               LowerName(b.value) \in
                                   {LowerName(v) : v \in req.filters[1].include}}
             IN  /\ res.status = "ok"
                 /\ Range(res.buckets) = wanted

\* C23: between two close_connection calls at most one client is created
\* under any interleaving of callers, every get_mongodb_client call
\* returns the stored instance, and when close_connection ends the stored
\* client is None.
C23_SingletonClient ==
    [][/\ created' <= 1
       /\ \A t \in Threads :
              /\ th'[t].pc = "conn_done" => th'[t].result = mongo_client' /\ th'[t].result # 0
              /\ (th[t].pc = "close_finally" /\ th'[t].pc = "close_done")
                     => mongo_client' = 0]_vars
====
